---- MODULE Spec2Model ----
(***************************************************************************)
(* A model of SwiftBot's update dispatch engine:                            *)
(*   - CommandTrie and CommandRouter          (src/SwiftBot/router.py)      *)
(*   - EventType.matches                      (src/SwiftBot/types.py)       *)
(*   - SwiftBot._process_update, _execute_middleware_chain, run_polling,    *)
(*     run_webhook, stop                      (src/SwiftBot/client.py)      *)
(*   - Filter, AndFilter, OrFilter, NotFilter and leaf filters              *)
(*                                            (src/SwiftBot/filters.py)     *)
(*   - Context.__init__                       (src/SwiftBot/context.py)     *)
(*   - RateLimiter             (src/SwiftBot/middleware/rate_limiter.py)    *)
(*   - AnalyticsCollector      (src/SwiftBot/middleware/analytics.py)       *)
(*                                                                          *)
(* A Python str is a sequence of one-character strings; Python None is      *)
(* None (handlers, numbers) or NoText (an optional str).                    *)
(***************************************************************************)
EXTENDS Integers, Sequences, FiniteSets, TLC

VARIABLES
    \* CommandTrie / CommandRouter
    command_trie,       \* node path -> [handler, is_end]; the root is <<>>
    text_handlers,      \* list of (event_type, handler, priority)
    callback_handlers,
    inline_handlers,
    other_handlers,     \* event class name -> list of (event_type, handler, priority)
    registered,         \* number of add_handler calls so far (handlers are numbered by it)
    registrations,      \* history: the (event_type, handler, priority) of every add_handler call
    inserted,           \* history: command -> binding of its latest CommandTrie.insert
    inserts,            \* number of direct CommandTrie.insert calls so far
    routed              \* the route call, if the latest router operation is one: its
                        \* arguments, its result and the handlers it tried

VARIABLES
    \* SwiftBot._process_update / _execute_middleware_chain, for one update
    middleware,         \* self.middleware: per middleware, what its on_update and on_error do
    handler_raises,     \* whether the terminal handler raises
    routing,            \* what routing and Context construction do for the update
    ctx,                \* the Context built for the update, if one was built
    pc,                 \* the program point of _process_update
    frames,             \* the on_update activations in progress, outermost first
    middleware_iter,    \* position of iter(self.middleware): the items consumed
    exc,                \* the exception in flight, or "None"
    errpos,             \* index of the on_error loop in progress
    handler_calls,      \* history: invocations of the terminal handler
    update_log,         \* history: the on_update calls, each with the caller of next
    error_log,          \* history: the on_error calls, in call order
    execute_result,     \* how _execute_middleware_chain ended: "returned" or the exception
    stats               \* self._stats

chainVars == <<middleware, handler_raises, routing, ctx, pc, frames, middleware_iter, exc,
               errpos, handler_calls, update_log, error_log, execute_result, stats>>

VARIABLES
    \* SwiftBot.run_polling / SwiftBot.stop
    running,                    \* self.running
    update_offset,              \* self._update_offset
    consecutive_failures,
    backoff_time,               \* in units of 1/TimeUnit seconds
    circuit_breaker_threshold,  \* the argument of run_polling
    poll_pc,                    \* the program point of run_polling
    updates,                    \* the rest of the fetched batch, not yet submitted
    submitted,                  \* history: the update ids handed to the worker pool
    slept,                      \* history: the latest asyncio.sleep of the loop
    pools,                      \* calls of worker_pool.start/stop and connection_pool.close
                                \* during the latest run
    fetch_offset,               \* history: the offset argument of the latest get_updates call
    last_batch,                 \* history: the latest non-empty batch get_updates returned
    failed_run,                 \* history: the fetch failures since the latest successful
                                \* fetch, circuit-breaker sleep or start of the loop
    rejected,                   \* the exception of the latest run_polling or run_webhook
                                \* call, if it was rejected at call time
    fatal,                      \* the exception the run in progress ends with, or "None"
    second_pc                   \* the program point of a run_polling call made by another
                                \* task of the same client

pollVars == <<running, update_offset, consecutive_failures, backoff_time,
              circuit_breaker_threshold, poll_pc, updates, submitted, slept, pools,
              fetch_offset, last_batch, failed_run, rejected, fatal, second_pc>>

VARIABLES
    \* a filter of filters.py and its latest call
    filter,                     \* the filter built so far, or NoFilter
    evaluated                   \* the call filter(message), if the latest filter operation
                                \* is one: the filter, the message and what the call ended with

filterVars == <<filter, evaluated>>

VARIABLES
    \* RateLimiter
    limiter,            \* the RateLimiter: its rate, per and whether it has a storage
    clock,              \* time.time(), in seconds
    memory_store,       \* self._memory_store: key -> the times of the recorded requests
    storage,            \* the storage backend: key -> the counter "ratelimit:<key>"
    requests            \* the on_update calls so far: key, program point, time of next_handler()

limiterVars == <<limiter, clock, memory_store, storage, requests>>

VARIABLES
    \* AnalyticsCollector, the only middleware of a client
    user_sessions,      \* self.user_sessions: user id -> UserSession
    command_stats,      \* self.command_stats: command -> CommandStats
    message_counter,    \* self.message_counter
    error_counter,      \* self.error_counter
    max_sessions,       \* self.max_sessions
    session_timeout,    \* self.session_timeout
    analytics_time,     \* time.time()
    analytics_pc,       \* the program point of the update being processed
    analytics_ctx       \* the user and the text of its Context

analyticsVars == <<user_sessions, command_stats, message_counter, error_counter,
                   max_sessions, session_timeout, analytics_time, analytics_pc,
                   analytics_ctx>>

routerVars == <<command_trie, text_handlers, callback_handlers, inline_handlers,
                other_handlers, registered, registrations, inserted, inserts,
                routed>>

vars == <<routerVars, chainVars, pollVars, filterVars, limiterVars, analyticsVars>>

-----------------------------------------------------------------------------
(* Bounds of the model *)

\* longest command string given to CommandTrie.insert directly
MaxCmdLen == 2
\* number of direct CommandTrie.insert calls
MaxInserts == 3
\* number of add_handler calls before routing, in the routing scenarios
MaxHandlers == 3
\* number of add_handler calls before routing, in the priority scenarios
MaxPriorityHandlers == 4
\* number of registered middleware
MaxMiddleware == 3
\* largest update id the update source hands out
MaxUpdateId == 3
\* number of filter objects a composed filter is built of
MaxFilterSize == 4
\* the longest text of an update a Context is built for
MaxTextLen == 5
\* the number of updates that reach the RateLimiter
MaxRequests == 3
\* the time at which the clock stops
MaxTime == 3
\* the updates processed through an AnalyticsCollector
MaxMessages == 3

-----------------------------------------------------------------------------
(* Python values *)

None == 0
\* None where a str is expected
NoText == <<"None">>
\* None where a regex match or True is expected
NoMatch == [kind |-> "None"]
\* None where an event type is expected
NoEventType == [name |-> "None"]
\* None where a trie binding (handler, event_type) is expected
NoBinding == [handler |-> None, event_type |-> NoEventType]

Min(a, b) == IF a <= b THEN a ELSE b

RECURSIVE Pow2(_)
Pow2(n) == IF n = 0 THEN 1 ELSE 2 * Pow2(n - 1)

\* all strings over alphabet of length at most n
StringsUpTo(alphabet, n) == UNION {[1..k -> alphabet] : k \in 0..n}

\* bool(s) of a str-or-None value
Truthy(s) == s # NoText /\ s # <<>>

IsSpace(c) == c = " "

\* str.startswith
StartsWith(s, prefix) ==
    Len(s) >= Len(prefix) /\ SubSeq(s, 1, Len(prefix)) = prefix

RECURSIVE LStrip(_)
LStrip(s) == IF s # <<>> /\ IsSpace(Head(s)) THEN LStrip(Tail(s)) ELSE s

RECURSIVE RStrip(_)
RStrip(s) ==
    IF s # <<>> /\ IsSpace(s[Len(s)]) THEN RStrip(SubSeq(s, 1, Len(s) - 1)) ELSE s

\* str.strip()
Strip(s) == RStrip(LStrip(s))

\* the longest prefix of s holding no character of stops
RECURSIVE TakeUntil(_, _)
TakeUntil(s, stops) ==
    IF s = <<>> \/ Head(s) \in stops
    THEN <<>>
    ELSE <<Head(s)>> \o TakeUntil(Tail(s), stops)

\* str.split()[0] of a string that holds a non-space character
FirstToken(s) == TakeUntil(LStrip(s), {" "})

\* str.split('@')[0]
BeforeAt(s) == TakeUntil(s, {"@"})

-----------------------------------------------------------------------------
(* CommandTrie *)

TrieAlphabet == {"/", "a"}
TrieCommands == StringsUpTo(TrieAlphabet, MaxCmdLen)

\* TrieNode.__init__
NewTrieNode == [handler |-> NoBinding, is_end |-> FALSE]

\* CommandTrie.__init__
EmptyTrie == (<<>> :> NewTrieNode)

\* char in node.children
HasChild(trie, node, char) == Append(node, char) \in DOMAIN trie

\* a mutant of TrieMark: the terminal node gets the handler but is not marked
TrieMarkNoEnd(trie, node, handler) ==
    [trie EXCEPT ![node] = [handler |-> handler, is_end |-> @.is_end]]

\* CommandTrie.insert, after the walk: mark the node terminal and bind it
TrieMark(trie, node, handler) ==
    [trie EXCEPT ![node] = [handler |-> handler, is_end |-> TRUE]]

\* CommandTrie.insert: walk the command from node, creating the missing nodes
RECURSIVE TrieInsertFrom(_, _, _, _)
TrieInsertFrom(trie, node, rest, handler) ==
    IF rest = <<>>
    THEN TrieMark(trie, node, handler)
    ELSE LET child == Append(node, Head(rest))
             grown == IF HasChild(trie, node, Head(rest))
                      THEN trie
                      ELSE trie @@ (child :> NewTrieNode)
         IN  TrieInsertFrom(grown, child, Tail(rest), handler)

insert(trie, command, handler) == TrieInsertFrom(trie, <<>>, command, handler)

\* CommandTrie.search, after the walk
TrieFound(trie, node) == IF trie[node].is_end THEN trie[node].handler ELSE NoBinding

\* CommandTrie.search: walk the command from node; an absent edge is no match
RECURSIVE TrieSearchFrom(_, _, _)
TrieSearchFrom(trie, node, rest) ==
    IF rest = <<>>
    THEN TrieFound(trie, node)
    ELSE IF ~HasChild(trie, node, Head(rest))
         THEN NoBinding
         ELSE TrieSearchFrom(trie, Append(node, Head(rest)), Tail(rest))

search(trie, command) == TrieSearchFrom(trie, <<>>, command)

-----------------------------------------------------------------------------
(* EventType *)

\* EventType.__init__; patterns are literal regexes, each a str
EventType(name, text, patterns, func, filters) ==
    [name |-> name, text |-> text, patterns |-> patterns, func |-> func,
     filters |-> filters]

\* the custom filter functions handlers are registered with
Func(func, update) ==
    CASE func = "is_chat_1" -> "chat_id" \in DOMAIN update /\ update.chat_id = 1
      [] func = "never"     -> FALSE
      [] OTHER              -> TRUE

\* re.Pattern.match of a literal regex: it matches at the start of the text
PatternMatch(pattern, text) ==
    IF StartsWith(text, pattern)
    THEN [kind |-> "Match", group |-> pattern]
    ELSE NoMatch

\* EventType.matches: the extra field filters
FiltersHold(filters, update) ==
    \A key \in DOMAIN filters :
        /\ key \in DOMAIN update
        /\ IF filters[key].is_list
           THEN update[key] \in filters[key].items
           ELSE update[key] = filters[key].value

\* EventType.matches: the first pattern, in list order, that matches the text
RECURSIVE FirstPatternMatch(_, _)
FirstPatternMatch(patterns, text) ==
    IF patterns = <<>>
    THEN NoMatch
    ELSE IF PatternMatch(Head(patterns), text) # NoMatch
         THEN PatternMatch(Head(patterns), text)
         ELSE FirstPatternMatch(Tail(patterns), text)

True == [kind |-> "True"]

\* EventType.matches, from the custom filter function on
MatchesRest(et, update) ==
    IF et.func # "None" /\ ~Func(et.func, update)
    THEN NoMatch
    ELSE IF ~FiltersHold(et.filters, update)
         THEN NoMatch
         ELSE True

\* EventType.matches
matches(et, update) ==
    IF Truthy(et.text) /\ "text" \in DOMAIN update /\ update.text # et.text
    THEN NoMatch
    ELSE IF et.patterns # <<>> /\ "text" \in DOMAIN update /\ Truthy(update.text)
         THEN IF FirstPatternMatch(et.patterns, update.text) # NoMatch
              THEN FirstPatternMatch(et.patterns, update.text)
              ELSE IF et.text = NoText
                   THEN NoMatch
                   ELSE MatchesRest(et, update)
         ELSE MatchesRest(et, update)

-----------------------------------------------------------------------------
(* CommandRouter *)

\* a handler-table entry (event_type, handler, priority)
Entry(et, handler, priority) ==
    [event_type |-> et, handler |-> handler, priority |-> priority]

\* a mutant of SortedInsert: an entry goes before the entries of its own priority
SortedInsertBeforeEqual(sorted, entry) ==
    LET before == {i \in 1..Len(sorted) : sorted[i].priority > entry.priority}
        n == Cardinality(before)
    IN  SubSeq(sorted, 1, n) \o <<entry>> \o SubSeq(sorted, n + 1, Len(sorted))

\* list.sort(key=priority, reverse=True), one step of it: the sort is stable, so
\* an entry goes after every entry already placed whose priority is not lower
SortedInsert(sorted, entry) ==
    LET before == {i \in 1..Len(sorted) : sorted[i].priority >= entry.priority}
        n == IF before = {} THEN 0 ELSE CHOOSE i \in before : \A j \in before : j <= i
    IN  SubSeq(sorted, 1, n) \o <<entry>> \o SubSeq(sorted, n + 1, Len(sorted))

\* list.sort(key=lambda x: x[2], reverse=True): a stable sort by priority descending
RECURSIVE SortByPriority(_, _)
SortByPriority(sorted, rest) ==
    IF rest = <<>>
    THEN sorted
    ELSE SortByPriority(SortedInsert(sorted, Head(rest)), Tail(rest))

\* handlers.append(entry); handlers.sort(key=lambda x: x[2], reverse=True)
AppendAndSort(handlers, entry) == SortByPriority(<<>>, Append(handlers, entry))

\* self.other_handlers.get(name, [])
OtherHandlers(others, name) == IF name \in DOMAIN others THEN others[name] ELSE <<>>

\* CommandRouter.add_handler
add_handler(event_type, priority) ==
    LET handler == registered + 1
        entry == Entry(event_type, handler, priority)
    IN  /\ registered' = handler
        /\ registrations' = Append(registrations, entry)
        /\ IF event_type.name = "Message" /\ Truthy(event_type.text)
              /\ StartsWith(event_type.text, <<"/">>)
           THEN /\ command_trie' = insert(command_trie, event_type.text,
                                          [handler |-> handler, event_type |-> event_type])
                /\ UNCHANGED <<text_handlers, callback_handlers, inline_handlers,
                               other_handlers>>
           ELSE /\ UNCHANGED command_trie
                /\ CASE event_type.name = "Message" ->
                          /\ text_handlers' = AppendAndSort(text_handlers, entry)
                          /\ UNCHANGED <<callback_handlers, inline_handlers, other_handlers>>
                     [] event_type.name = "CallbackQuery" ->
                          /\ callback_handlers' = AppendAndSort(callback_handlers, entry)
                          /\ UNCHANGED <<text_handlers, inline_handlers, other_handlers>>
                     [] event_type.name = "InlineQuery" ->
                          /\ inline_handlers' = AppendAndSort(inline_handlers, entry)
                          /\ UNCHANGED <<text_handlers, callback_handlers, other_handlers>>
                     [] OTHER ->
                          /\ other_handlers' =
                               [n \in DOMAIN other_handlers \cup {event_type.name} |->
                                  IF n = event_type.name
                                  THEN AppendAndSort(OtherHandlers(other_handlers, n), entry)
                                  ELSE other_handlers[n]]
                          /\ UNCHANGED <<text_handlers, callback_handlers, inline_handlers>>

\* a mutant of RouteCommand: the bot-username suffix is kept
RouteCommandKeepsAt(update, update_type) ==
    IF update_type = "message" /\ "text" \in DOMAIN update /\ Truthy(update.text)
       /\ StartsWith(Strip(update.text), <<"/">>)
    THEN FirstToken(Strip(update.text))
    ELSE NoText

\* CommandRouter.route, the fast path: the command of a message text, or NoText
\* when the fast path does not apply
RouteCommand(update, update_type) ==
    IF update_type = "message" /\ "text" \in DOMAIN update /\ Truthy(update.text)
       /\ StartsWith(Strip(update.text), <<"/">>)
    THEN BeforeAt(FirstToken(Strip(update.text)))
    ELSE NoText

\* CommandRouter.route: the handler list of the update type
RouteHandlers(update_type) ==
    CASE update_type = "message"        -> text_handlers
      [] update_type = "callback_query" -> callback_handlers
      [] update_type = "inline_query"   -> inline_handlers
      [] OTHER                          -> OtherHandlers(other_handlers, update_type)

\* what route returns besides the triple: the handlers whose matches() it called
RouteReturn(handler, match, event_type, attempted, fast) ==
    [handler |-> handler, match |-> match, event_type |-> event_type,
     attempted |-> attempted, fast |-> fast]

\* a mutant of RouteScan: the scan goes on after a match and the last match wins
RECURSIVE RouteScanLast(_, _, _, _)
RouteScanLast(handlers, update, attempted, found) ==
    IF handlers = <<>>
    THEN [found EXCEPT !.attempted = attempted]
    ELSE LET e == Head(handlers)
             match_result == matches(e.event_type, update)
             tried == Append(attempted, e.handler)
         IN  RouteScanLast(Tail(handlers), update, tried,
                 IF match_result # NoMatch
                 THEN RouteReturn(e.handler,
                                  IF match_result.kind = "Match" THEN match_result ELSE NoMatch,
                                  e.event_type, tried, FALSE)
                 ELSE found)

\* CommandRouter.route: the scan of the handler list, first match wins
RECURSIVE RouteScan(_, _, _, _)
RouteScan(handlers, update, attempted, found) ==
    IF handlers = <<>>
    THEN [found EXCEPT !.attempted = attempted]
    ELSE LET e == Head(handlers)
             match_result == matches(e.event_type, update)
             tried == Append(attempted, e.handler)
         IN  IF match_result # NoMatch
             THEN RouteReturn(e.handler,
                              IF match_result.kind = "Match" THEN match_result ELSE NoMatch,
                              e.event_type, tried, FALSE)
             ELSE RouteScan(Tail(handlers), update, tried, found)

\* a mutant of RouteFast: the fast path is taken only when no table entry matches
RouteFastAfterTable(update, update_type) ==
    IF RouteCommand(update, update_type) # NoText
       /\ search(command_trie, RouteCommand(update, update_type)) # NoBinding
       /\ \A i \in 1..Len(RouteHandlers(update_type)) :
             matches(RouteHandlers(update_type)[i].event_type, update) = NoMatch
    THEN search(command_trie, RouteCommand(update, update_type))
    ELSE NoBinding

\* CommandRouter.route, the fast path: the trie's binding of the command
RouteFast(update, update_type) ==
    IF RouteCommand(update, update_type) # NoText
    THEN search(command_trie, RouteCommand(update, update_type))
    ELSE NoBinding

\* CommandRouter.route
route(update, update_type) ==
    LET result == RouteFast(update, update_type)
    IN  IF result # NoBinding
        THEN RouteReturn(result.handler, NoMatch, result.event_type, <<>>, TRUE)
        ELSE RouteScan(RouteHandlers(update_type), update, <<>>,
                       RouteReturn(None, NoMatch, NoEventType, <<>>, FALSE))

-----------------------------------------------------------------------------
(* The router's operations as actions *)

RouterInit ==
    /\ command_trie = EmptyTrie
    /\ text_handlers = <<>>
    /\ callback_handlers = <<>>
    /\ inline_handlers = <<>>
    /\ other_handlers = <<>>
    /\ registered = 0
    /\ registrations = <<>>
    /\ inserted = [c \in TrieCommands |-> NoBinding]
    /\ inserts = 0
    /\ routed = [called |-> FALSE]

\* a call of CommandTrie.insert(command, handler)
TrieInsert(command, handler) ==
    /\ inserts < MaxInserts
    /\ inserts' = inserts + 1
    /\ command_trie' = insert(command_trie, command, handler)
    /\ inserted' = [inserted EXCEPT ![command] = handler]
    /\ UNCHANGED <<text_handlers, callback_handlers, inline_handlers, other_handlers,
                   registered, registrations, routed>>
    /\ UNCHANGED <<chainVars, pollVars, filterVars, limiterVars, analyticsVars>>

\* a call of CommandRouter.add_handler(event_type, handler, priority), one of at most max
AddHandler(event_type, priority, max) ==
    /\ registered < max
    /\ add_handler(event_type, priority)
    /\ routed' = [called |-> FALSE]
    /\ UNCHANGED <<inserted, inserts>>
    /\ UNCHANGED <<chainVars, pollVars, filterVars, limiterVars, analyticsVars>>

\* a call of CommandRouter.route(update, update_type)
Route(update, update_type) ==
    /\ routed' = [called |-> TRUE, update |-> update, update_type |-> update_type,
                  result |-> route(update, update_type)]
    /\ UNCHANGED <<command_trie, text_handlers, callback_handlers, inline_handlers,
                   other_handlers, registered, registrations, inserted, inserts>>
    /\ UNCHANGED <<chainVars, pollVars, filterVars, limiterVars, analyticsVars>>

\* a call of event_type.matches(update), outside of any router
Matches(event_type, update) ==
    /\ routed' = [called |-> TRUE, event_type |-> event_type, update |-> update,
                  result |-> matches(event_type, update)]
    /\ UNCHANGED <<command_trie, text_handlers, callback_handlers, inline_handlers,
                   other_handlers, registered, registrations, inserted, inserts>>
    /\ UNCHANGED <<chainVars, pollVars, filterVars, limiterVars, analyticsVars>>

-----------------------------------------------------------------------------
(* SwiftBot._process_update and SwiftBot._execute_middleware_chain *)

\* What a middleware's on_update(ctx, next) does:
\*   "none"   the middleware has no on_update
\*   "pass"   await next(), then return
\*   "block"  return without calling next
\*   "twice"  await next() two times, then return
\*   "catch"  await next() inside try/except Exception, then return
\*   "raise"  raise before calling next
\* and its on_error(ctx, error): "none" (no on_error), "ok" (returns), "raise".
Middleware(on_update, on_error) == [on_update |-> on_update, on_error |-> on_error]

\* the next() calls an on_update of this kind makes when none of them raises
NextCalls(on_update) ==
    CASE on_update = "pass"  -> 1
      [] on_update = "catch" -> 1
      [] on_update = "twice" -> 2
      [] OTHER               -> 0

\* str.split(): the whitespace-delimited tokens of a str
RECURSIVE Split(_)
Split(s) ==
    IF LStrip(s) = <<>>
    THEN <<>>
    ELSE LET token == FirstToken(s)
             stripped == LStrip(s)
         IN  <<token>> \o Split(SubSeq(stripped, Len(token) + 1, Len(stripped)))

\* str.split(maxsplit=1): the first token, and the rest of the str after the
\* whitespace that follows it when that rest is not empty
SplitOnce(s) ==
    IF LStrip(s) = <<>>
    THEN <<>>
    ELSE LET token == FirstToken(s)
             stripped == LStrip(s)
             rest == LStrip(SubSeq(stripped, Len(token) + 1, Len(stripped)))
         IN  IF rest = <<>> THEN <<token>> ELSE <<token, rest>>

\* a mutant of ContextArgs: the arguments are parsed whatever the text starts with
ContextArgsOfAnyText(text) ==
    IF Truthy(text) /\ Len(SplitOnce(text)) > 1 THEN Split(SplitOnce(text)[2]) ELSE <<>>

\* Context.__init__: self.args
ContextArgs(text) ==
    IF Truthy(text) /\ StartsWith(text, <<"/">>) /\ Len(SplitOnce(text)) > 1
    THEN Split(SplitOnce(text)[2])
    ELSE <<>>

\* Context(bot, update, update_obj, match): the text and the args of the context
Context(text) == [built |-> TRUE, text |-> text, args |-> ContextArgs(text)]

\* no Context has been built
NoContext == [built |-> FALSE]

ChainIdle ==
    /\ pc = "idle"
    /\ ctx = NoContext
    /\ frames = <<>>
    /\ middleware_iter = 0
    /\ exc = "None"
    /\ errpos = 0
    /\ handler_calls = 0
    /\ update_log = <<>>
    /\ error_log = <<>>
    /\ execute_result = "None"
    /\ stats = [updates_processed |-> 0, errors_handled |-> 0, handlers_executed |-> 0]

\* the middleware whose on_update called next, 0 for _execute_middleware_chain itself
Caller == IF frames = <<>> THEN 0 ELSE frames[Len(frames)].mw

\* a mutant of ProcessUpdate: an update without a handler is an error
ProcessUpdateNoRouteIsError(text) ==
    /\ pc = "idle"
    /\ CASE routing = "no_handler" ->
              pc' = "process_except" /\ exc' = "NoRoute" /\ UNCHANGED ctx
         [] routing = "route_raises" ->
              pc' = "process_except" /\ exc' = "RouteError" /\ UNCHANGED ctx
         [] routing = "context_raises" ->
              pc' = "process_except" /\ exc' = "ContextError" /\ UNCHANGED ctx
         [] OTHER -> pc' = "next_handler" /\ ctx' = Context(text) /\ UNCHANGED exc
    /\ UNCHANGED <<middleware, handler_raises, routing, frames, middleware_iter, errpos,
                   handler_calls, update_log, error_log, execute_result, stats>>
    /\ UNCHANGED <<routerVars, pollVars, filterVars, limiterVars, analyticsVars>>

\* _process_update up to the call of _execute_middleware_chain, for an update
\* with the text: Update.from_dict, router.route and Context(...)
ProcessUpdate(text) ==
    /\ pc = "idle"
    /\ CASE routing = "no_handler" -> pc' = "done" /\ UNCHANGED <<exc, ctx>>
         [] routing = "route_raises" ->
              pc' = "process_except" /\ exc' = "RouteError" /\ UNCHANGED ctx
         [] routing = "context_raises" ->
              pc' = "process_except" /\ exc' = "ContextError" /\ UNCHANGED ctx
         [] OTHER -> pc' = "next_handler" /\ ctx' = Context(text) /\ UNCHANGED exc
    /\ UNCHANGED <<middleware, handler_raises, routing, frames, middleware_iter, errpos,
                   handler_calls, update_log, error_log, execute_result, stats>>
    /\ UNCHANGED <<routerVars, pollVars, filterVars, limiterVars, analyticsVars>>

\* next_handler(): next(middleware_iter), then the middleware's on_update, or
\* next_handler() again for a middleware without one
NextMiddleware ==
    /\ pc = "next_handler"
    /\ middleware_iter < Len(middleware)
    /\ middleware_iter' = middleware_iter + 1
    /\ IF middleware[middleware_iter + 1].on_update # "none"
       THEN /\ frames' = Append(frames, [mw |-> middleware_iter + 1, calls |-> 0])
            /\ update_log' = Append(update_log, [mw |-> middleware_iter + 1, caller |-> Caller])
            /\ pc' = "on_update"
       ELSE UNCHANGED <<frames, update_log, pc>>
    /\ UNCHANGED <<ctx, middleware, handler_raises, routing, exc, errpos, handler_calls,
                   error_log, execute_result, stats>>
    /\ UNCHANGED <<routerVars, pollVars, filterVars, limiterVars, analyticsVars>>

\* next_handler(): StopIteration, so the terminal handler is called
TerminalHandler ==
    /\ pc = "next_handler"
    /\ middleware_iter >= Len(middleware)
    /\ handler_calls' = handler_calls + 1
    /\ IF handler_raises
       THEN pc' = "raise" /\ exc' = "HandlerError"
       ELSE pc' = "return" /\ UNCHANGED exc
    /\ UNCHANGED <<ctx, middleware, handler_raises, routing, frames, middleware_iter, errpos,
                   update_log, error_log, execute_result, stats>>
    /\ UNCHANGED <<routerVars, pollVars, filterVars, limiterVars, analyticsVars>>

\* the innermost on_update runs on: it calls next, returns or raises
OnUpdate ==
    /\ pc = "on_update"
    /\ LET top == frames[Len(frames)]
           kind == middleware[top.mw].on_update
       IN  IF kind = "raise"
           THEN /\ frames' = SubSeq(frames, 1, Len(frames) - 1)
                /\ exc' = "UpdateError"
                /\ pc' = "raise"
           ELSE IF top.calls < NextCalls(kind)
                THEN /\ frames' = [frames EXCEPT ![Len(frames)].calls = @ + 1]
                     /\ pc' = "next_handler"
                     /\ UNCHANGED exc
                ELSE /\ frames' = SubSeq(frames, 1, Len(frames) - 1)
                     /\ pc' = "return"
                     /\ UNCHANGED exc
    /\ UNCHANGED <<ctx, middleware, handler_raises, routing, middleware_iter, errpos,
                   handler_calls, update_log, error_log, execute_result, stats>>
    /\ UNCHANGED <<routerVars, pollVars, filterVars, limiterVars, analyticsVars>>

\* a next() call returns into the on_update that made it
ReturnToMiddleware ==
    /\ pc = "return"
    /\ frames # <<>>
    /\ pc' = "on_update"
    /\ UNCHANGED <<ctx, middleware, handler_raises, routing, frames, middleware_iter, exc,
                   errpos, handler_calls, update_log, error_log, execute_result, stats>>
    /\ UNCHANGED <<routerVars, pollVars, filterVars, limiterVars, analyticsVars>>

\* an exception reaches the on_update whose next() call raised it: the on_update
\* catches it or lets it through
RaiseIntoMiddleware ==
    /\ pc = "raise"
    /\ frames # <<>>
    /\ IF middleware[frames[Len(frames)].mw].on_update = "catch"
       THEN /\ exc' = "None"
            /\ pc' = "on_update"
            /\ UNCHANGED frames
       ELSE /\ frames' = SubSeq(frames, 1, Len(frames) - 1)
            /\ UNCHANGED <<exc, pc>>
    /\ UNCHANGED <<ctx, middleware, handler_raises, routing, middleware_iter, errpos,
                   handler_calls, update_log, error_log, execute_result, stats>>
    /\ UNCHANGED <<routerVars, pollVars, filterVars, limiterVars, analyticsVars>>

\* _execute_middleware_chain: await next_handler() returned; back in
\* _process_update the statistics are updated
ExecuteReturns ==
    /\ pc = "return"
    /\ frames = <<>>
    /\ execute_result' = "returned"
    /\ stats' = [stats EXCEPT !.updates_processed = @ + 1, !.handlers_executed = @ + 1]
    /\ pc' = "done"
    /\ UNCHANGED <<ctx, middleware, handler_raises, routing, frames, middleware_iter, exc,
                   errpos, handler_calls, update_log, error_log>>
    /\ UNCHANGED <<routerVars, pollVars, filterVars, limiterVars, analyticsVars>>

\* a mutant of ExecuteExcept: the exception is re-raised without the on_error loop
ExecuteExceptSkipsPass ==
    /\ pc = "raise"
    /\ frames = <<>>
    /\ execute_result' = exc
    /\ pc' = "process_except"
    /\ UNCHANGED <<ctx, middleware, handler_raises, routing, frames, middleware_iter, exc,
                   errpos, handler_calls, update_log, error_log, stats>>
    /\ UNCHANGED <<routerVars, pollVars, filterVars, limiterVars, analyticsVars>>

\* _execute_middleware_chain: await next_handler() raised; the on_error loop starts
ExecuteExcept ==
    /\ pc = "raise"
    /\ frames = <<>>
    /\ pc' = "error_pass"
    /\ errpos' = 1
    /\ UNCHANGED <<ctx, middleware, handler_raises, routing, frames, middleware_iter, exc,
                   handler_calls, update_log, error_log, execute_result, stats>>
    /\ UNCHANGED <<routerVars, pollVars, filterVars, limiterVars, analyticsVars>>

\* a mutant of ErrorPassIndex: the loop runs over the middleware in reverse
ErrorPassIndexReversed(k) == Len(middleware) + 1 - k

\* _execute_middleware_chain: the middleware of the k-th iteration of
\* "for middleware in self.middleware"
ErrorPassIndex(k) == k

\* a mutant of OnErrorSwallowed: an exception of on_error leaves the loop
OnErrorNotSwallowed == FALSE

\* _execute_middleware_chain: "except Exception as middleware_error" around each
\* on_error call logs the exception and the loop goes on
OnErrorSwallowed == TRUE

\* _execute_middleware_chain: one iteration of the on_error loop
ExecuteOnError ==
    /\ pc = "error_pass"
    /\ errpos <= Len(middleware)
    /\ LET i == ErrorPassIndex(errpos)
       IN  IF middleware[i].on_error = "none"
           THEN /\ errpos' = errpos + 1
                /\ UNCHANGED <<error_log, exc, pc, execute_result>>
           ELSE /\ error_log' = Append(error_log, [mw |-> i, ctx |-> TRUE, error |-> exc])
                /\ IF middleware[i].on_error = "raise" /\ ~OnErrorSwallowed
                   THEN /\ exc' = "OnErrorError"
                        /\ execute_result' = "OnErrorError"
                        /\ pc' = "process_except"
                        /\ UNCHANGED errpos
                   ELSE /\ errpos' = errpos + 1
                        /\ UNCHANGED <<exc, pc, execute_result>>
    /\ UNCHANGED <<ctx, middleware, handler_raises, routing, frames, middleware_iter,
                   handler_calls, update_log, stats>>
    /\ UNCHANGED <<routerVars, pollVars, filterVars, limiterVars, analyticsVars>>

\* _execute_middleware_chain: after the on_error loop, "raise" re-raises the
\* exception to _process_update
ExecuteReraise ==
    /\ pc = "error_pass"
    /\ errpos > Len(middleware)
    /\ execute_result' = exc
    /\ pc' = "process_except"
    /\ UNCHANGED <<ctx, middleware, handler_raises, routing, frames, middleware_iter, exc,
                   errpos, handler_calls, update_log, error_log, stats>>
    /\ UNCHANGED <<routerVars, pollVars, filterVars, limiterVars, analyticsVars>>

\* a mutant of ProcessExcept: the update is counted as processed as well
ProcessExceptCountsUpdate ==
    /\ pc = "process_except"
    /\ stats' = [stats EXCEPT !.errors_handled = @ + 1, !.updates_processed = @ + 1]
    /\ errpos' = 1
    /\ pc' = "process_error_pass"
    /\ UNCHANGED <<ctx, middleware, handler_raises, routing, frames, middleware_iter, exc,
                   handler_calls, update_log, error_log, execute_result>>
    /\ UNCHANGED <<routerVars, pollVars, filterVars, limiterVars, analyticsVars>>

\* _process_update: "except Exception as e": errors_handled is counted and the
\* second on_error loop starts
ProcessExcept ==
    /\ pc = "process_except"
    /\ stats' = [stats EXCEPT !.errors_handled = @ + 1]
    /\ errpos' = 1
    /\ pc' = "process_error_pass"
    /\ UNCHANGED <<ctx, middleware, handler_raises, routing, frames, middleware_iter, exc,
                   handler_calls, update_log, error_log, execute_result>>
    /\ UNCHANGED <<routerVars, pollVars, filterVars, limiterVars, analyticsVars>>

\* _process_update: one iteration of its on_error(None, e) loop; the loop is
\* inside one try/except, so an exception of on_error ends it
ProcessOnError ==
    /\ pc = "process_error_pass"
    /\ IF errpos > Len(middleware)
       THEN pc' = "done" /\ UNCHANGED <<errpos, error_log>>
       ELSE IF middleware[errpos].on_error = "none"
            THEN errpos' = errpos + 1 /\ UNCHANGED <<pc, error_log>>
            ELSE /\ error_log' = Append(error_log,
                                        [mw |-> errpos, ctx |-> FALSE, error |-> exc])
                 /\ IF middleware[errpos].on_error = "raise"
                    THEN pc' = "done" /\ UNCHANGED errpos
                    ELSE errpos' = errpos + 1 /\ UNCHANGED pc
    /\ UNCHANGED <<ctx, middleware, handler_raises, routing, frames, middleware_iter, exc,
                   handler_calls, update_log, execute_result, stats>>
    /\ UNCHANGED <<routerVars, pollVars, filterVars, limiterVars, analyticsVars>>

-----------------------------------------------------------------------------
(* SwiftBot.run_polling, SwiftBot.run_webhook and SwiftBot.stop *)

\* backoff_factor: float = 0.5, as a fraction
BackoffFactor == [num |-> 1, den |-> 2]
\* max_backoff: float = 60
MaxBackoff == 60
\* circuit_breaker_timeout: int = 60
CircuitBreakerTimeout == 60
\* 2 ** n converts to a float, as the product with the float backoff_factor
\* needs, for n below 1024 only: from there on Python raises OverflowError
FloatMaxExponent == 1024

\* times are counted in units of 1/TimeUnit seconds, so that 0.5 * 2**n is an integer
TimeUnit == BackoffFactor.den
Seconds(n) == n * TimeUnit

\* a mutant of Backoff: the exponent is the failure count before the increment
BackoffBeforeIncrement(failures) ==
    IF failures > 30
    THEN Seconds(MaxBackoff)
    ELSE Min(BackoffFactor.num * Pow2(failures - 1), Seconds(MaxBackoff))

\* min(backoff_factor * (2 ** consecutive_failures), max_backoff); the power
\* is above max_backoff / backoff_factor long before 2 ** 30
Backoff(failures) ==
    IF failures >= 30
    THEN Seconds(MaxBackoff)
    ELSE Min(BackoffFactor.num * Pow2(failures), Seconds(MaxBackoff))

\* backoff_factor * (2 ** consecutive_failures) raises OverflowError
BackoffOverflows(failures) == failures >= FloatMaxExponent

\* a mutant of CircuitBreakerOpens: the breaker opens one failure late
CircuitBreakerOpensLate(failures) == failures > circuit_breaker_threshold

\* "if consecutive_failures >= circuit_breaker_threshold"
CircuitBreakerOpens(failures) == failures >= circuit_breaker_threshold

PollIdle ==
    /\ running = FALSE
    /\ update_offset = 0
    /\ consecutive_failures = 0
    /\ backoff_time = 0
    /\ circuit_breaker_threshold = 5
    /\ poll_pc = "idle"
    /\ updates = <<>>
    /\ submitted = <<>>
    /\ slept = [kind |-> "none", time |-> 0, failures |-> 0]
    /\ pools = [started |-> 0, stopped |-> 0, closed |-> 0]
    /\ fetch_offset = 0
    /\ last_batch = <<>>
    /\ failed_run = 0
    /\ rejected = "None"
    /\ fatal = "None"
    /\ second_pc = "idle"

\* the program points of the polling loop: its top, the fetch in flight, the
\* dispatch of the fetched batch and the two sleeps
LoopStates == {"loop", "fetch", "submit", "backing_off", "circuit_open"}

\* the program points at which a run starts: the client has not been run before
NotStarted == {"idle"}

\* a mutant of RunPolling: the running check sits inside the try block, so the
\* rejected call runs the finally block of the call in progress
RunPollingCheckInsideTry(threshold) ==
    IF running
    THEN /\ rejected' = "RuntimeError"
         /\ running' = FALSE
         /\ pools' = [pools EXCEPT !.stopped = @ + 1, !.closed = @ + 1]
         /\ UNCHANGED <<update_offset, consecutive_failures, backoff_time,
                        circuit_breaker_threshold, poll_pc, updates, submitted, slept,
                        fetch_offset, last_batch, failed_run, fatal>>
         /\ UNCHANGED <<routerVars, chainVars, filterVars, limiterVars, analyticsVars, second_pc>>
    ELSE /\ poll_pc \in NotStarted
         /\ running' = TRUE
         /\ circuit_breaker_threshold' = threshold
         /\ pools' = [started |-> 0, stopped |-> 0, closed |-> 0]
         /\ rejected' = "None"
         /\ fatal' = "None"
         /\ poll_pc' = "starting"
         /\ UNCHANGED <<update_offset, consecutive_failures, backoff_time, updates,
                        submitted, slept, fetch_offset, last_batch, failed_run>>
         /\ UNCHANGED <<routerVars, chainVars, filterVars, limiterVars, analyticsVars, second_pc>>

\* run_polling(circuit_breaker_threshold=threshold), up to the try block: the
\* call is rejected while the bot runs; otherwise it sets the running flag.
\* pools counts the pool calls of the run in progress.
RunPolling(threshold) ==
    IF running
    THEN /\ rejected' = "RuntimeError"
         /\ UNCHANGED <<running, update_offset, consecutive_failures, backoff_time,
                        circuit_breaker_threshold, poll_pc, updates, submitted, slept,
                        pools, fetch_offset, last_batch, failed_run, fatal>>
         /\ UNCHANGED <<routerVars, chainVars, filterVars, limiterVars, analyticsVars, second_pc>>
    ELSE /\ poll_pc \in NotStarted
         /\ running' = TRUE
         /\ circuit_breaker_threshold' = threshold
         /\ pools' = [started |-> 0, stopped |-> 0, closed |-> 0]
         /\ rejected' = "None"
         /\ fatal' = "None"
         /\ poll_pc' = "starting"
         /\ UNCHANGED <<update_offset, consecutive_failures, backoff_time, updates,
                        submitted, slept, fetch_offset, last_batch, failed_run>>
         /\ UNCHANGED <<routerVars, chainVars, filterVars, limiterVars, analyticsVars, second_pc>>

\* worker_pool.start() and get_me() return: the loop's counters are set
StartupSucceeds ==
    /\ poll_pc = "starting"
    /\ pools' = [pools EXCEPT !.started = @ + 1]
    /\ consecutive_failures' = 0
    /\ backoff_time' = 0
    /\ failed_run' = 0
    /\ poll_pc' = "loop"
    /\ UNCHANGED <<running, update_offset, circuit_breaker_threshold, updates, submitted,
                   slept, fetch_offset, last_batch, rejected, fatal>>
    /\ UNCHANGED <<routerVars, chainVars, filterVars, limiterVars, analyticsVars, second_pc>>

\* worker_pool.start() raises (started is FALSE), or get_me() or the dropping
\* of pending updates does: "Fatal error in polling", re-raised after the
\* finally block
StartupFails(started) ==
    /\ poll_pc = "starting"
    /\ pools' = [pools EXCEPT !.started = IF started THEN @ + 1 ELSE @]
    /\ fatal' = "StartupError"
    /\ poll_pc' = "finally"
    /\ UNCHANGED <<running, update_offset, consecutive_failures, backoff_time,
                   circuit_breaker_threshold, updates, submitted, slept, fetch_offset,
                   last_batch, failed_run, rejected>>
    /\ UNCHANGED <<routerVars, chainVars, filterVars, limiterVars, analyticsVars, second_pc>>

\* "while self.running": the next iteration starts with the get_updates call,
\* or the loop is left for the finally block
LoopTop ==
    /\ poll_pc = "loop"
    /\ IF running
       THEN poll_pc' = "fetch" /\ fetch_offset' = update_offset
       ELSE poll_pc' = "finally" /\ UNCHANGED fetch_offset
    /\ UNCHANGED <<running, update_offset, consecutive_failures, backoff_time,
                   circuit_breaker_threshold, updates, submitted, slept, pools,
                   last_batch, failed_run, rejected, fatal>>
    /\ UNCHANGED <<routerVars, chainVars, filterVars, limiterVars, analyticsVars, second_pc>>

\* a mutant of FetchSucceeds: the failure counter survives a successful fetch
FetchSucceedsKeepsCount(batch) ==
    /\ poll_pc = "fetch"
    /\ backoff_time' = 0
    /\ updates' = batch
    /\ last_batch' = IF batch # <<>> THEN batch ELSE last_batch
    /\ failed_run' = 0
    /\ poll_pc' = "submit"
    /\ UNCHANGED <<running, update_offset, consecutive_failures,
                   circuit_breaker_threshold, submitted, slept, pools, fetch_offset,
                   rejected, fatal>>
    /\ UNCHANGED <<routerVars, chainVars, filterVars, limiterVars, analyticsVars, second_pc>>

\* api.get_updates(offset=self._update_offset, ...) returns a batch
FetchSucceeds(batch) ==
    /\ poll_pc = "fetch"
    /\ consecutive_failures' = 0
    /\ backoff_time' = 0
    /\ updates' = batch
    /\ last_batch' = IF batch # <<>> THEN batch ELSE last_batch
    /\ failed_run' = 0
    /\ poll_pc' = "submit"
    /\ UNCHANGED <<running, update_offset, circuit_breaker_threshold, submitted, slept,
                   pools, fetch_offset, rejected, fatal>>
    /\ UNCHANGED <<routerVars, chainVars, filterVars, limiterVars, analyticsVars, second_pc>>

\* api.get_updates raises: the circuit breaker opens, or the loop backs off; an
\* OverflowError of the backoff formula leaves the loop as a fatal error
FetchFails ==
    /\ poll_pc = "fetch"
    /\ consecutive_failures' = consecutive_failures + 1
    /\ failed_run' = failed_run + 1
    /\ IF CircuitBreakerOpens(consecutive_failures')
       THEN /\ slept' = [kind |-> "circuit_breaker", time |-> Seconds(CircuitBreakerTimeout),
                         failures |-> consecutive_failures']
            /\ poll_pc' = "circuit_open"
            /\ UNCHANGED <<backoff_time, fatal>>
       ELSE IF BackoffOverflows(consecutive_failures')
            THEN /\ fatal' = "OverflowError"
                 /\ poll_pc' = "finally"
                 /\ UNCHANGED <<backoff_time, slept>>
            ELSE /\ backoff_time' = Backoff(consecutive_failures')
                 /\ slept' = [kind |-> "backoff", time |-> backoff_time',
                              failures |-> consecutive_failures']
                 /\ poll_pc' = "backing_off"
                 /\ UNCHANGED fatal
    /\ UNCHANGED <<running, update_offset, circuit_breaker_threshold, updates, submitted,
                   pools, fetch_offset, last_batch, rejected>>
    /\ UNCHANGED <<routerVars, chainVars, filterVars, limiterVars, analyticsVars, second_pc>>

\* a mutant of CircuitSleepEnds: the counter is not reset after the sleep
CircuitSleepEndsKeepsCount ==
    /\ poll_pc = "circuit_open"
    /\ failed_run' = 0
    /\ poll_pc' = "loop"
    /\ UNCHANGED <<running, update_offset, consecutive_failures, backoff_time,
                   circuit_breaker_threshold, updates, submitted, slept, pools,
                   fetch_offset, last_batch, rejected, fatal>>
    /\ UNCHANGED <<routerVars, chainVars, filterVars, limiterVars, analyticsVars, second_pc>>

\* asyncio.sleep(circuit_breaker_timeout) returns: the counter is reset
CircuitSleepEnds ==
    /\ poll_pc = "circuit_open"
    /\ consecutive_failures' = 0
    /\ failed_run' = 0
    /\ poll_pc' = "loop"
    /\ UNCHANGED <<running, update_offset, backoff_time, circuit_breaker_threshold,
                   updates, submitted, slept, pools, fetch_offset, last_batch, rejected,
                   fatal>>
    /\ UNCHANGED <<routerVars, chainVars, filterVars, limiterVars, analyticsVars, second_pc>>

\* asyncio.sleep(backoff_time) returns
BackoffSleepEnds ==
    /\ poll_pc = "backing_off"
    /\ poll_pc' = "loop"
    /\ UNCHANGED <<running, update_offset, consecutive_failures, backoff_time,
                   circuit_breaker_threshold, updates, submitted, slept, pools,
                   fetch_offset, last_batch, failed_run, rejected, fatal>>
    /\ UNCHANGED <<routerVars, chainVars, filterVars, limiterVars, analyticsVars, second_pc>>

\* a mutant of SubmitUpdate: the offset is assigned after the submission, so
\* an update whose submission raises leaves it alone
SubmitUpdateThenOffset(submit_raises) ==
    /\ poll_pc = "submit"
    /\ updates # <<>>
    /\ update_offset' = IF submit_raises THEN update_offset ELSE Head(updates) + 1
    /\ submitted' = IF submit_raises THEN submitted ELSE Append(submitted, Head(updates))
    /\ updates' = Tail(updates)
    /\ UNCHANGED <<running, consecutive_failures, backoff_time, circuit_breaker_threshold,
                   poll_pc, slept, pools, fetch_offset, last_batch, failed_run, rejected,
                   fatal>>
    /\ UNCHANGED <<routerVars, chainVars, filterVars, limiterVars, analyticsVars, second_pc>>

\* a mutant of SubmitUpdate: the batch is walked from its last update to its first
SubmitUpdateReversed(submit_raises) ==
    /\ poll_pc = "submit"
    /\ updates # <<>>
    /\ update_offset' = updates[Len(updates)] + 1
    /\ submitted' = IF submit_raises
                    THEN submitted
                    ELSE Append(submitted, updates[Len(updates)])
    /\ updates' = SubSeq(updates, 1, Len(updates) - 1)
    /\ UNCHANGED <<running, consecutive_failures, backoff_time, circuit_breaker_threshold,
                   poll_pc, slept, pools, fetch_offset, last_batch, failed_run, rejected,
                   fatal>>
    /\ UNCHANGED <<routerVars, chainVars, filterVars, limiterVars, analyticsVars, second_pc>>

\* a mutant of SubmitUpdate: an exception of submit is not caught in the for
\* loop, it reaches the handler of the fetch failures and the rest of the
\* batch is left
SubmitUpdateUncaught(submit_raises) ==
    /\ poll_pc = "submit"
    /\ updates # <<>>
    /\ update_offset' = Head(updates) + 1
    /\ submitted' = IF submit_raises THEN submitted ELSE Append(submitted, Head(updates))
    /\ updates' = IF submit_raises THEN <<>> ELSE Tail(updates)
    /\ consecutive_failures' =
          IF submit_raises THEN consecutive_failures + 1 ELSE consecutive_failures
    /\ UNCHANGED <<running, backoff_time, circuit_breaker_threshold,
                   poll_pc, slept, pools, fetch_offset, last_batch, failed_run, rejected,
                   fatal>>
    /\ UNCHANGED <<routerVars, chainVars, filterVars, limiterVars, analyticsVars, second_pc>>

\* "for update in updates": the offset is set, then the update is submitted to
\* the worker pool; an exception of submit is logged
SubmitUpdate(submit_raises) ==
    /\ poll_pc = "submit"
    /\ updates # <<>>
    /\ update_offset' = Head(updates) + 1
    /\ submitted' = IF submit_raises THEN submitted ELSE Append(submitted, Head(updates))
    /\ updates' = Tail(updates)
    /\ UNCHANGED <<running, consecutive_failures, backoff_time, circuit_breaker_threshold,
                   poll_pc, slept, pools, fetch_offset, last_batch, failed_run, rejected,
                   fatal>>
    /\ UNCHANGED <<routerVars, chainVars, filterVars, limiterVars, analyticsVars, second_pc>>

\* the batch is exhausted
BatchDone ==
    /\ poll_pc = "submit"
    /\ updates = <<>>
    /\ poll_pc' = "loop"
    /\ UNCHANGED <<running, update_offset, consecutive_failures, backoff_time,
                   circuit_breaker_threshold, updates, submitted, slept, pools,
                   fetch_offset, last_batch, failed_run, rejected, fatal>>
    /\ UNCHANGED <<routerVars, chainVars, filterVars, limiterVars, analyticsVars, second_pc>>

\* SwiftBot.stop, called while the running flag is set
Stop ==
    /\ running
    /\ running' = FALSE
    /\ UNCHANGED <<update_offset, consecutive_failures, backoff_time,
                   circuit_breaker_threshold, poll_pc, updates, submitted, slept, pools,
                   fetch_offset, last_batch, failed_run, rejected, fatal>>
    /\ UNCHANGED <<routerVars, chainVars, filterVars, limiterVars, analyticsVars, second_pc>>

\* a mutant of Finally: the connection pool is not closed
FinallySkipsClose ==
    /\ poll_pc = "finally"
    /\ running' = FALSE
    /\ pools' = [pools EXCEPT !.stopped = @ + 1]
    /\ poll_pc' = "stopped"
    /\ UNCHANGED <<update_offset, consecutive_failures, backoff_time,
                   circuit_breaker_threshold, updates, submitted, slept, fetch_offset,
                   last_batch, failed_run, rejected, fatal>>
    /\ UNCHANGED <<routerVars, chainVars, filterVars, limiterVars, analyticsVars, second_pc>>

\* run_polling's finally block; a fatal error is re-raised after it
Finally ==
    /\ poll_pc = "finally"
    /\ running' = FALSE
    /\ pools' = [pools EXCEPT !.stopped = @ + 1, !.closed = @ + 1]
    /\ poll_pc' = "stopped"
    /\ UNCHANGED <<update_offset, consecutive_failures, backoff_time,
                   circuit_breaker_threshold, updates, submitted, slept, fetch_offset,
                   last_batch, failed_run, rejected, fatal>>
    /\ UNCHANGED <<routerVars, chainVars, filterVars, limiterVars, analyticsVars, second_pc>>

\* what a run_polling call of another task leaves alone: the loop of the first
\* call and its history
SecondFrame ==
    /\ UNCHANGED <<update_offset, consecutive_failures, backoff_time,
                   circuit_breaker_threshold, poll_pc, updates, submitted, slept,
                   fetch_offset, last_batch, failed_run, fatal>>
    /\ UNCHANGED <<routerVars, chainVars, filterVars, limiterVars, analyticsVars>>

\* run_polling called by another task, up to the try block: rejected while the
\* running flag is set; otherwise the call sets the flag
SecondRunPolling ==
    /\ second_pc = "idle"
    /\ IF running
       THEN rejected' = "RuntimeError" /\ UNCHANGED <<running, second_pc, pools>>
       ELSE /\ running' = TRUE
            /\ second_pc' = "starting"
            /\ rejected' = "None"
            /\ UNCHANGED pools
    /\ SecondFrame

\* the second call: worker_pool.start() and get_me() return
SecondStartupSucceeds ==
    /\ second_pc = "starting"
    /\ second_pc' = "loop"
    /\ pools' = [pools EXCEPT !.started = @ + 1]
    /\ UNCHANGED <<running, rejected>>
    /\ SecondFrame

\* the second call: "while self.running"
SecondLoopTop ==
    /\ second_pc = "loop"
    /\ second_pc' = IF running THEN "fetch" ELSE "finally"
    /\ UNCHANGED <<running, rejected, pools>>
    /\ SecondFrame

\* the second call: get_updates returns no update, or fails and the sleep of
\* the backoff has ended
SecondFetchReturns ==
    /\ second_pc = "fetch"
    /\ second_pc' = "loop"
    /\ UNCHANGED <<running, rejected, pools>>
    /\ SecondFrame

\* the second call: the finally block
SecondFinally ==
    /\ second_pc = "finally"
    /\ running' = FALSE
    /\ pools' = [pools EXCEPT !.stopped = @ + 1, !.closed = @ + 1]
    /\ second_pc' = "stopped"
    /\ UNCHANGED rejected
    /\ SecondFrame

\* run_webhook(webhook_url=webhook_url), up to the try block: a missing URL and
\* a running bot are rejected; otherwise the call sets the running flag
RunWebhook(webhook_url) ==
    IF ~Truthy(webhook_url) \/ running
    THEN /\ rejected' = IF ~Truthy(webhook_url) THEN "ValueError" ELSE "RuntimeError"
         /\ UNCHANGED <<running, update_offset, consecutive_failures, backoff_time,
                        circuit_breaker_threshold, poll_pc, updates, submitted, slept,
                        pools, fetch_offset, last_batch, failed_run, fatal>>
         /\ UNCHANGED <<routerVars, chainVars, filterVars, limiterVars, analyticsVars, second_pc>>
    ELSE /\ poll_pc \in NotStarted
         /\ running' = TRUE
         /\ pools' = [started |-> 0, stopped |-> 0, closed |-> 0]
         /\ rejected' = "None"
         /\ fatal' = "None"
         /\ poll_pc' = "webhook_starting"
         /\ UNCHANGED <<update_offset, consecutive_failures, backoff_time,
                        circuit_breaker_threshold, updates, submitted, slept,
                        fetch_offset, last_batch, failed_run>>
         /\ UNCHANGED <<routerVars, chainVars, filterVars, limiterVars, analyticsVars, second_pc>>

\* worker_pool.start(), set_webhook and server.start() return
WebhookStartupSucceeds ==
    /\ poll_pc = "webhook_starting"
    /\ pools' = [pools EXCEPT !.started = @ + 1]
    /\ poll_pc' = "webhook_serving"
    /\ UNCHANGED <<running, update_offset, consecutive_failures, backoff_time,
                   circuit_breaker_threshold, updates, submitted, slept, fetch_offset,
                   last_batch, failed_run, rejected, fatal>>
    /\ UNCHANGED <<routerVars, chainVars, filterVars, limiterVars, analyticsVars, second_pc>>

\* worker_pool.start() raises (started is FALSE), or set_webhook or
\* server.start() does: "Fatal error in webhook mode"
WebhookStartupFails(started) ==
    /\ poll_pc = "webhook_starting"
    /\ pools' = [pools EXCEPT !.started = IF started THEN @ + 1 ELSE @]
    /\ fatal' = "StartupError"
    /\ poll_pc' = "webhook_finally"
    /\ UNCHANGED <<running, update_offset, consecutive_failures, backoff_time,
                   circuit_breaker_threshold, updates, submitted, slept, fetch_offset,
                   last_batch, failed_run, rejected>>
    /\ UNCHANGED <<routerVars, chainVars, filterVars, limiterVars, analyticsVars, second_pc>>

\* "while self.running: await asyncio.sleep(1)" finds the flag cleared
WebhookLoopExits ==
    /\ poll_pc = "webhook_serving"
    /\ ~running
    /\ poll_pc' = "webhook_finally"
    /\ UNCHANGED <<running, update_offset, consecutive_failures, backoff_time,
                   circuit_breaker_threshold, updates, submitted, slept, pools,
                   fetch_offset, last_batch, failed_run, rejected, fatal>>
    /\ UNCHANGED <<routerVars, chainVars, filterVars, limiterVars, analyticsVars, second_pc>>

\* run_webhook's finally block: the pools are released; self.running is not
\* assigned
WebhookFinally ==
    /\ poll_pc = "webhook_finally"
    /\ pools' = [pools EXCEPT !.stopped = @ + 1, !.closed = @ + 1]
    /\ poll_pc' = "webhook_stopped"
    /\ UNCHANGED <<running, update_offset, consecutive_failures, backoff_time,
                   circuit_breaker_threshold, updates, submitted, slept, fetch_offset,
                   last_batch, failed_run, rejected, fatal>>
    /\ UNCHANGED <<routerVars, chainVars, filterVars, limiterVars, analyticsVars, second_pc>>

-----------------------------------------------------------------------------
(* filters.py: Filter, AndFilter, OrFilter, NotFilter and the leaf filters *)

\* A message is [text, chat]. text is [kind, value]: no attribute ("absent"),
\* None, a str, or an int ("int": a value of the wrong type); chat is
\* [kind, type]: no attribute, None, or a chat object with its type.
\* A filter call ends with a Python value, "True", "False" or "None", or
\* raises: Raised.
Raised == "raise"

\* the Python bool as a value
Bool(b) == IF b THEN "True" ELSE "False"

\* the truth value of the value a call ended with; a raised call has none
IsTrue(value) == value = "True"

HasAttr(field) == field.kind # "absent"

\* the body of TextFilter.__call__: hasattr(message, 'text') and
\* message.text is not None and message.text.strip() != ''
TextFilterBody(message) ==
    IF ~HasAttr(message.text) \/ message.text.kind = "None"
    THEN "False"
    ELSE IF message.text.kind # "str"
         THEN Raised
         ELSE Bool(Strip(message.text.value) # <<>>)

\* the body of PrivateFilter.__call__: hasattr(message, 'chat') and
\* message.chat and message.chat.type == 'private'; "and" returns the falsy
\* operand
PrivateFilterBody(message) ==
    IF ~HasAttr(message.chat)
    THEN "False"
    ELSE IF message.chat.kind = "None"
         THEN "None"
         ELSE Bool(message.chat.type = "private")

\* the predicates given to CustomFilter:
\*   "len_text":  lambda m: len(m.text) > 1
\*   "text":      lambda m: m.text
\* bool(func(message)), or the exception of func
CustomFilterBody(func, message) ==
    IF func = "len_text"
    THEN IF message.text.kind = "str"
         THEN Bool(Len(message.text.value) > 1)
         ELSE Raised
    ELSE IF ~HasAttr(message.text)
         THEN Raised
         ELSE Bool(\/ message.text.kind = "int"
                   \/ message.text.kind = "str" /\ message.text.value # <<>>)

\* "except Exception: return False" around the body of a leaf
ExceptFalse(body) == IF body = Raised THEN "False" ELSE body

TextFilter(message) == ExceptFalse(TextFilterBody(message))

PrivateFilter(message) == ExceptFalse(PrivateFilterBody(message))

\* a mutant of CustomFilter: the exception of the predicate is not caught
CustomFilterUncaught(func, message) == CustomFilterBody(func, message)

CustomFilter(func, message) == ExceptFalse(CustomFilterBody(func, message))

\* Filter.__call__ of the base class, which a subclass is to override:
\* raise NotImplementedError
BaseFilter(message) == Raised

\* AndFilter.__call__, given what the calls of filter1 and filter2 end with:
\* try: return filter1(message) and filter2(message); except: return False
AndFilter(result1, result2) ==
    IF result1 = Raised
    THEN "False"
    ELSE IF ~IsTrue(result1)
         THEN result1
         ELSE IF result2 = Raised THEN "False" ELSE result2

\* OrFilter.__call__: try: return filter1(message) or filter2(message);
\* except: return False
OrFilter(result1, result2) ==
    IF result1 = Raised
    THEN "False"
    ELSE IF IsTrue(result1)
         THEN result1
         ELSE IF result2 = Raised THEN "False" ELSE result2

\* NotFilter.__call__: try: return not filter(message); except: return True
NotFilter(result) == IF result = Raised THEN "True" ELSE Bool(~IsTrue(result))

\* no filter has been built
NoFilter == [op |-> "None"]

IsLeaf(f) == f.op \in {"Text", "Private", "Custom", "Base"}

\* filter(message)
RECURSIVE Call(_, _)
Call(f, message) ==
    CASE f.op = "Text" -> TextFilter(message)
      [] f.op = "Private" -> PrivateFilter(message)
      [] f.op = "Custom" -> CustomFilter(f.func, message)
      [] f.op = "Base" -> BaseFilter(message)
      [] f.op = "And" -> AndFilter(Call(f.filter1, message), Call(f.filter2, message))
      [] f.op = "Or" -> OrFilter(Call(f.filter1, message), Call(f.filter2, message))
      [] f.op = "Not" -> NotFilter(Call(f.filter, message))

\* the number of filter objects of a filter
RECURSIVE Size(_)
Size(f) ==
    IF IsLeaf(f)
    THEN 1
    ELSE IF f.op = "Not"
         THEN 1 + Size(f.filter)
         ELSE 1 + Size(f.filter1) + Size(f.filter2)

FilterInit ==
    /\ filter = NoFilter
    /\ evaluated = [called |-> FALSE]

\* a leaf filter is taken: F.text, F.private, F.custom(func) or a Filter()
FilterLeaf(leaf) ==
    /\ filter' = leaf
    /\ evaluated' = [called |-> FALSE]
    /\ UNCHANGED <<routerVars, chainVars, pollVars, limiterVars, analyticsVars>>

\* Filter.__and__: filter & other, or other & filter
FilterAnd(other, other_first) ==
    /\ filter # NoFilter
    /\ Size(filter) + Size(other) + 1 <= MaxFilterSize
    /\ filter' = IF other_first
                 THEN [op |-> "And", filter1 |-> other, filter2 |-> filter]
                 ELSE [op |-> "And", filter1 |-> filter, filter2 |-> other]
    /\ evaluated' = [called |-> FALSE]
    /\ UNCHANGED <<routerVars, chainVars, pollVars, limiterVars, analyticsVars>>

\* Filter.__or__: filter | other, or other | filter
FilterOr(other, other_first) ==
    /\ filter # NoFilter
    /\ Size(filter) + Size(other) + 1 <= MaxFilterSize
    /\ filter' = IF other_first
                 THEN [op |-> "Or", filter1 |-> other, filter2 |-> filter]
                 ELSE [op |-> "Or", filter1 |-> filter, filter2 |-> other]
    /\ evaluated' = [called |-> FALSE]
    /\ UNCHANGED <<routerVars, chainVars, pollVars, limiterVars, analyticsVars>>

\* Filter.__invert__: ~filter
FilterInvert ==
    /\ filter # NoFilter
    /\ Size(filter) + 1 <= MaxFilterSize
    /\ filter' = [op |-> "Not", filter |-> filter]
    /\ evaluated' = [called |-> FALSE]
    /\ UNCHANGED <<routerVars, chainVars, pollVars, limiterVars, analyticsVars>>

\* filter(message)
FilterCall(message) ==
    /\ filter # NoFilter
    /\ evaluated' = [called |-> TRUE, filter |-> filter, message |-> message,
                     result |-> Call(filter, message)]
    /\ UNCHANGED filter
    /\ UNCHANGED <<routerVars, chainVars, pollVars, limiterVars, analyticsVars>>

-----------------------------------------------------------------------------
(* middleware/rate_limiter.py: RateLimiter *)

\* the keys key_func gives: two users
Keys == {"user:1", "user:2"}

\* a counter of the storage backend that does not exist; a counter without
\* a time to live
NoCounter == [count |-> 0, expires |-> 0]
NoExpiry == 0 - 1

\* the counter, gone once its time to live has passed
Counter(key) ==
    IF storage[key].expires # NoExpiry /\ clock >= storage[key].expires
    THEN NoCounter
    ELSE storage[key]

RECURSIVE SelectAfter(_, _)
\* [t for t in requests if t > cutoff_time]
SelectAfter(times, cutoff_time) ==
    IF times = <<>>
    THEN <<>>
    ELSE IF Head(times) > cutoff_time
         THEN <<Head(times)>> \o SelectAfter(Tail(times), cutoff_time)
         ELSE SelectAfter(Tail(times), cutoff_time)

\* RateLimiter._check_memory: the requests of the key that are kept
CheckMemory(key, current_time) == SelectAfter(memory_store[key], current_time - limiter.per)

\* RateLimiter._check_redis: int(count or 0) >= self.rate
CheckRedis(key) == Counter(key).count >= limiter.rate

\* no update has reached the limiter
LimiterIdle ==
    /\ limiter = [rate |-> 1, per |-> 2, storage |-> FALSE]
    /\ clock = 0
    /\ memory_store = [key \in Keys |-> <<>>]
    /\ storage = [key \in Keys |-> NoCounter]
    /\ requests = <<>>

\* a request of the key at a program point of on_update
Request(key, at, passed) == [key |-> key, pc |-> at, passed |-> passed]

\* time goes by
Tick ==
    /\ clock < MaxTime
    /\ clock' = clock + 1
    /\ UNCHANGED <<limiter, memory_store, storage, requests>>
    /\ UNCHANGED <<routerVars, chainVars, pollVars, filterVars, analyticsVars>>

\* RateLimiter.on_update without a storage: _check_memory and _record_request
\* do not suspend, so the call runs from its start to next_handler() or to
\* the rejection without another task running in between
OnUpdateMemory(key) ==
    /\ ~limiter.storage
    /\ Len(requests) < MaxRequests
    /\ LET kept == CheckMemory(key, clock)
       IN  IF Len(kept) >= limiter.rate
           THEN /\ memory_store' = [memory_store EXCEPT ![key] = kept]
                /\ requests' = Append(requests, Request(key, "rejected", NoExpiry))
           ELSE /\ memory_store' = [memory_store EXCEPT ![key] = Append(kept, clock)]
                /\ requests' = Append(requests, Request(key, "next_handler", clock))
    /\ UNCHANGED <<limiter, clock, storage>>
    /\ UNCHANGED <<routerVars, chainVars, pollVars, filterVars, analyticsVars>>

\* RateLimiter.on_update with a storage, up to "await self.storage.get(...)",
\* where the task is suspended
OnUpdateStorage(key) ==
    /\ limiter.storage
    /\ Len(requests) < MaxRequests
    /\ requests' = Append(requests, Request(key, "get", NoExpiry))
    /\ UNCHANGED <<limiter, clock, memory_store, storage>>
    /\ UNCHANGED <<routerVars, chainVars, pollVars, filterVars, analyticsVars>>

\* _check_redis: storage.get returns; the request is rejected, or goes on to
\* _record_redis and is suspended in "await self.storage.incr(...)"
StorageGet(i) ==
    /\ i \in 1..Len(requests)
    /\ requests[i].pc = "get"
    /\ requests' = [requests EXCEPT ![i].pc =
                        IF CheckRedis(requests[i].key) THEN "rejected" ELSE "incr"]
    /\ UNCHANGED <<limiter, clock, memory_store, storage>>
    /\ UNCHANGED <<routerVars, chainVars, pollVars, filterVars, analyticsVars>>

\* _record_redis: storage.incr is done; the task is suspended in
\* "await self.storage.expire(...)"
StorageIncr(i) ==
    /\ i \in 1..Len(requests)
    /\ requests[i].pc = "incr"
    /\ storage' = [storage EXCEPT ![requests[i].key] =
                       IF Counter(requests[i].key) = NoCounter
                       THEN [count |-> 1, expires |-> NoExpiry]
                       ELSE [Counter(requests[i].key) EXCEPT !.count = @ + 1]]
    /\ requests' = [requests EXCEPT ![i].pc = "expire"]
    /\ UNCHANGED <<limiter, clock, memory_store>>
    /\ UNCHANGED <<routerVars, chainVars, pollVars, filterVars, analyticsVars>>

\* _record_redis: storage.expire is done, and on_update calls next_handler()
StorageExpire(i) ==
    /\ i \in 1..Len(requests)
    /\ requests[i].pc = "expire"
    /\ storage' = [storage EXCEPT ![requests[i].key] =
                       IF Counter(requests[i].key) = NoCounter
                       THEN NoCounter
                       ELSE [Counter(requests[i].key) EXCEPT !.expires = clock + limiter.per]]
    /\ requests' = [requests EXCEPT ![i].pc = "next_handler", ![i].passed = clock]
    /\ UNCHANGED <<limiter, clock, memory_store>>
    /\ UNCHANGED <<routerVars, chainVars, pollVars, filterVars, analyticsVars>>

-----------------------------------------------------------------------------
(* AnalyticsCollector *)

\* UserSession(...) of a new session; session_duration is derived and left out
UserSession(now) ==
    [start_time |-> now, last_activity |-> now, commands_used |-> <<>>,
     messages_sent |-> 1, errors_encountered |-> 0]

\* a success rate in percent, as the fraction num/den
Percent(num, den) == [num |-> num, den |-> den]

\* CommandStats(...) of a command used for the first time
CommandStats ==
    [total_uses |-> 1, unique_users |-> 1, success_rate |-> Percent(100, 1),
     error_count |-> 0]

\* no session, no command statistics
Empty == [k \in {} |-> None]

\* AnalyticsCollector._cleanup_old_sessions without a storage backend: the
\* sessions idle for longer than session_timeout are deleted
CleanupOldSessions(sessions, now) ==
    [u \in {v \in DOMAIN sessions : ~(now - sessions[v].last_activity > session_timeout)}
        |-> sessions[u]]

\* AnalyticsCollector._track_user_session
TrackUserSession(sessions, user, now) ==
    IF user = None
    THEN sessions
    ELSE LET tracked ==
                 IF user \notin DOMAIN sessions
                 THEN [u \in DOMAIN sessions \cup {user} |->
                          IF u = user THEN UserSession(now) ELSE sessions[u]]
                 ELSE [sessions EXCEPT ![user].last_activity = now,
                                       ![user].messages_sent = @ + 1]
         IN  IF Cardinality(DOMAIN tracked) > max_sessions
             THEN CleanupOldSessions(tracked, now)
             ELSE tracked

\* command = ctx.text.split()[0], for a text that starts with '/'
Command(text) == Split(text)[1]

\* "if ctx.text and ctx.text.startswith('/')"
IsCommandText(text) == Truthy(text) /\ StartsWith(text, <<"/">>)

\* _track_command_usage counts the user as a new one of the command
NewUserOfCommand(sessions, user, command) ==
    /\ user # None
    /\ user \in DOMAIN sessions
    /\ \A k \in 1..Len(sessions[user].commands_used) :
          sessions[user].commands_used[k] # command

\* AnalyticsCollector._track_command_usage: self.command_stats
TrackCommandStats(table, sessions, user, command) ==
    IF command \notin DOMAIN table
    THEN [c \in DOMAIN table \cup {command} |->
             IF c = command THEN CommandStats ELSE table[c]]
    ELSE [table EXCEPT ![command].total_uses = @ + 1,
                       ![command].unique_users =
                           IF NewUserOfCommand(sessions, user, command) THEN @ + 1 ELSE @]

\* AnalyticsCollector._track_command_usage: session.commands_used
TrackCommandSessions(table, sessions, user, command) ==
    IF command \in DOMAIN table /\ NewUserOfCommand(sessions, user, command)
    THEN [sessions EXCEPT ![user].commands_used = Append(@, command)]
    ELSE sessions

\* AnalyticsCollector._track_error: self.command_stats; has_ctx is FALSE for
\* the call with ctx None
TrackErrorStats(table, has_ctx, text) ==
    IF has_ctx /\ IsCommandText(text) /\ Command(text) \in DOMAIN table
    THEN [table EXCEPT ![Command(text)].error_count = @ + 1]
    ELSE table

\* AnalyticsCollector._track_error: self.user_sessions
TrackErrorSessions(sessions, has_ctx, user) ==
    IF has_ctx /\ user # None /\ user \in DOMAIN sessions
    THEN [sessions EXCEPT ![user].errors_encountered = @ + 1]
    ELSE sessions

\* AnalyticsCollector._update_command_success: the success rate
\* (total_uses - error_count) / total_uses * 100
UpdateCommandSuccess(table, command) ==
    IF command \in DOMAIN table
    THEN [table EXCEPT ![command].success_rate =
             Percent((table[command].total_uses - table[command].error_count) * 100,
                     table[command].total_uses)]
    ELSE table

\* no update is being processed
NoAnalyticsContext == [user |-> None, text |-> NoText]

\* AnalyticsCollector.__init__, but for max_sessions and session_timeout
AnalyticsFresh ==
    /\ user_sessions = Empty
    /\ command_stats = Empty
    /\ message_counter = 0
    /\ error_counter = 0
    /\ analytics_time = 0
    /\ analytics_pc = "idle"
    /\ analytics_ctx = NoAnalyticsContext

\* AnalyticsCollector() with its default arguments, which no update reaches
AnalyticsIdle ==
    /\ AnalyticsFresh
    /\ max_sessions = 10000
    /\ session_timeout = 1800

\* time goes by
AnalyticsTick ==
    /\ analytics_time < MaxTime
    /\ analytics_time' = analytics_time + 1
    /\ UNCHANGED <<user_sessions, command_stats, message_counter, error_counter,
                   max_sessions, session_timeout, analytics_pc, analytics_ctx>>
    /\ UNCHANGED <<routerVars, chainVars, pollVars, filterVars, limiterVars>>

\* AnalyticsCollector.on_update(ctx, next_handler) up to "await next_handler()":
\* the session and the command are tracked and the message is counted
AnalyticsOnUpdate(user, text) ==
    /\ analytics_pc = "idle"
    /\ message_counter < MaxMessages
    /\ LET sessions == TrackUserSession(user_sessions, user, analytics_time)
       IN  IF IsCommandText(text)
           THEN /\ command_stats' = TrackCommandStats(command_stats, sessions, user,
                                                      Command(text))
                /\ user_sessions' = TrackCommandSessions(command_stats, sessions, user,
                                                         Command(text))
           ELSE /\ user_sessions' = sessions
                /\ UNCHANGED command_stats
    /\ message_counter' = message_counter + 1
    /\ analytics_ctx' = [user |-> user, text |-> text]
    /\ analytics_pc' = "handler"
    /\ UNCHANGED <<error_counter, max_sessions, session_timeout, analytics_time>>
    /\ UNCHANGED <<routerVars, chainVars, pollVars, filterVars, limiterVars>>

\* "await next_handler()" returns: the handler has returned, and the success
\* rate of the command is updated
AnalyticsHandlerReturns ==
    /\ analytics_pc = "handler"
    /\ command_stats' = IF IsCommandText(analytics_ctx.text)
                        THEN UpdateCommandSuccess(command_stats, Command(analytics_ctx.text))
                        ELSE command_stats
    /\ analytics_pc' = "idle"
    /\ analytics_ctx' = NoAnalyticsContext
    /\ UNCHANGED <<user_sessions, message_counter, error_counter, max_sessions,
                   session_timeout, analytics_time>>
    /\ UNCHANGED <<routerVars, chainVars, pollVars, filterVars, limiterVars>>

\* "await next_handler()" raises the handler's exception: on_update's except
\* clause calls _track_error and re-raises
AnalyticsHandlerRaises ==
    /\ analytics_pc = "handler"
    /\ command_stats' = TrackErrorStats(command_stats, TRUE, analytics_ctx.text)
    /\ user_sessions' = TrackErrorSessions(user_sessions, TRUE, analytics_ctx.user)
    /\ analytics_pc' = "chain_except"
    /\ UNCHANGED <<message_counter, error_counter, max_sessions, session_timeout,
                   analytics_time, analytics_ctx>>
    /\ UNCHANGED <<routerVars, chainVars, pollVars, filterVars, limiterVars>>

\* _execute_middleware_chain's except clause calls on_error(ctx, e), which
\* counts the error and calls _track_error; the exception is re-raised
AnalyticsChainOnError ==
    /\ analytics_pc = "chain_except"
    /\ error_counter' = error_counter + 1
    /\ command_stats' = TrackErrorStats(command_stats, TRUE, analytics_ctx.text)
    /\ user_sessions' = TrackErrorSessions(user_sessions, TRUE, analytics_ctx.user)
    /\ analytics_pc' = "process_except"
    /\ UNCHANGED <<message_counter, max_sessions, session_timeout, analytics_time,
                   analytics_ctx>>
    /\ UNCHANGED <<routerVars, chainVars, pollVars, filterVars, limiterVars>>

\* _process_update's except clause calls on_error(None, e): the error is
\* counted again and _track_error(None, ...) does nothing
AnalyticsProcessOnError ==
    /\ analytics_pc = "process_except"
    /\ error_counter' = error_counter + 1
    /\ command_stats' = TrackErrorStats(command_stats, FALSE, analytics_ctx.text)
    /\ user_sessions' = TrackErrorSessions(user_sessions, FALSE, analytics_ctx.user)
    /\ analytics_pc' = "idle"
    /\ analytics_ctx' = NoAnalyticsContext
    /\ UNCHANGED <<message_counter, max_sessions, session_timeout, analytics_time>>
    /\ UNCHANGED <<routerVars, chainVars, pollVars, filterVars, limiterVars>>

\* an iteration of _session_cleanup_task
SessionCleanupTask ==
    /\ user_sessions' = CleanupOldSessions(user_sessions, analytics_time)
    /\ user_sessions' # user_sessions
    /\ UNCHANGED <<command_stats, message_counter, error_counter, max_sessions,
                   session_timeout, analytics_time, analytics_pc, analytics_ctx>>
    /\ UNCHANGED <<routerVars, chainVars, pollVars, filterVars, limiterVars>>

-----------------------------------------------------------------------------
(* Scenarios: the inputs of the trie, routing and priority specifications *)

\* the handlers bound by direct CommandTrie.insert calls
TrieBindings == {[handler |-> h, event_type |-> NoEventType] : h \in {1, 2}}

NoFilters == <<>>
MessageCmdP == EventType("Message", <<"/", "p">>, <<>>, "None", NoFilters)
MessageSlashPattern == EventType("Message", NoText, << <<"/">> >>, "None", NoFilters)
MessageAny == EventType("Message", NoText, <<>>, "None", NoFilters)
MessageHi == EventType("Message", <<"h", "i">>, <<>>, "None", NoFilters)
CallbackAny == EventType("CallbackQuery", NoText, <<>>, "None", NoFilters)
CallbackData7 == EventType("CallbackQuery", NoText, <<>>, "None",
                           ("data" :> [is_list |-> FALSE, value |-> 7]))
EditedAny == EventType("EditedMessage", NoText, <<>>, "None", NoFilters)

RouterEventTypes == {MessageCmdP, MessageSlashPattern, MessageAny, CallbackAny, EditedAny}
RouterPriorities == {0, 10}

PriorityEventTypes == {MessageHi, CallbackData7}
PriorityPriorities == {1, 3, 5}

MessageUpdate(text) == [text |-> text, chat_id |-> 1]
CallbackUpdate(data) == [data |-> data, chat_id |-> 1]

\* the (update, update_type) pairs route is called with
RouterCalls ==
    ({MessageUpdate(<<"/", "p">>), MessageUpdate(<<"/", "p", "@", "b", " ", "q">>),
      MessageUpdate(<<"/", "q">>), MessageUpdate(<<"h", "i">>), MessageUpdate(NoText)}
        \X {"message", "edited_message"})
    \cup {<<CallbackUpdate(7), "callback_query">>}

PriorityCalls ==
    {<<MessageUpdate(<<"h", "i">>), "message">>, <<MessageUpdate(<<"y", "o">>), "message">>,
     <<CallbackUpdate(7), "callback_query">>, <<CallbackUpdate(8), "callback_query">>}

\* the event types of the command scenarios: Message(text='/st'),
\* Message(text='/St'), Message(text='/st', func=lambda m: False) and
\* Message(text='/st', chat_id=2)
CommandEventTypes ==
    {EventType("Message", <<"/", "s", "t">>, <<>>, "None", NoFilters),
     EventType("Message", <<"/", "S", "t">>, <<>>, "None", NoFilters),
     EventType("Message", <<"/", "s", "t">>, <<>>, "never", NoFilters),
     EventType("Message", <<"/", "s", "t">>, <<>>, "None",
               ("chat_id" :> [is_list |-> FALSE, value |-> 2]))}

\* the texts of the message updates of the command scenarios
CommandTexts ==
    {<<"/", "s", "t">>, <<" ", "/", "s", "t", "@", "b", " ", "h">>,
     <<"/", "s", "t", " ", "h">>, <<"/", "s">>, <<"/", "S", "t">>,
     <<"/", "s", "t", "t">>, <<"s", "t">>, <<"/", "@", "b">>}

CommandCalls ==
    ({MessageUpdate(text) : text \in CommandTexts} \X {"message"})
        \cup {<<MessageUpdate(<<"/", "s", "t">>), "edited_message">>}

\* the event types matches is called on: each of the four constraints given or not
MatchesEventTypes ==
    {EventType("Message", text, patterns, func, filters) :
        text \in {NoText, <<"h", "i">>},
        patterns \in {<<>>, << <<"h">> >>, << <<"y">>, <<"y", "o">> >>},
        func \in {"None", "is_chat_1", "never"},
        filters \in {NoFilters, ("chat_id" :> [is_list |-> FALSE, value |-> 2]),
                     ("chat_id" :> [is_list |-> TRUE, items |-> {1, 3}])}}

\* the updates matches is called with: a text, an empty text, None for a text,
\* and updates of a kind that has no text attribute
MatchesUpdates ==
    {MessageUpdate(text) : text \in {<<"h", "i">>, <<"y", "o">>, <<>>, NoText}}
        \cup {[text |-> <<"h", "i">>, chat_id |-> 2], CallbackUpdate(7)}

\* the Message event types registered in the reachability scenarios:
\* Message(text='/st'), Message(text='/s t') and Message(text='/s@b')
ReachEventTypes ==
    {EventType("Message", text, <<>>, "None", NoFilters) :
        text \in {<<"/", "s", "t">>, <<"/", "s", " ", "t">>, <<"/", "s", "@", "b">>}}

\* the middleware registered with SwiftBot.use in the middleware scenarios
MiddlewareKinds ==
    {Middleware("pass", "ok"), Middleware("pass", "raise"), Middleware("pass", "none"),
     Middleware("none", "ok"), Middleware("none", "none"), Middleware("twice", "ok"),
     Middleware("block", "ok"), Middleware("catch", "ok"), Middleware("raise", "ok")}

\* the text of the update of the middleware scenarios
ChainTexts == {<<"/", "p", " ", "a">>}

\* one update about to be processed, with any middleware list and handler
ChainInit ==
    /\ middleware \in UNION {[1..n -> MiddlewareKinds] : n \in 0..MaxMiddleware}
    /\ routing \in {"handler", "no_handler", "route_raises", "context_raises"}
    /\ handler_raises \in IF routing = "handler" THEN BOOLEAN ELSE {FALSE}
    /\ ChainIdle

\* the texts of the updates a Context is built for, None included
ContextTexts == StringsUpTo({"/", "a", " "}, MaxTextLen) \cup {NoText}

\* one update with a handler about to be processed, with no middleware
HandledUpdate ==
    /\ middleware = <<>>
    /\ routing = "handler"
    /\ handler_raises = FALSE
    /\ ChainIdle

\* no update is processed
NoUpdate ==
    /\ middleware = <<>>
    /\ routing = "no_handler"
    /\ handler_raises = FALSE
    /\ ChainIdle

-----------------------------------------------------------------------------
(* Specifications *)

\* a router on which handlers are registered and updates routed
RouterOnlyInit == RouterInit /\ NoUpdate /\ PollIdle /\ FilterInit /\ LimiterIdle
                     /\ AnalyticsIdle

TrieNext ==
    \E command \in TrieCommands, handler \in TrieBindings : TrieInsert(command, handler)

\* CommandTrie under any sequence of insert calls
SpecTrie == RouterOnlyInit /\ [][TrieNext]_vars

RouterNext ==
    \/ \E event_type \in RouterEventTypes, priority \in RouterPriorities :
          AddHandler(event_type, priority, MaxHandlers)
    \/ \E call \in RouterCalls : Route(call[1], call[2])

\* CommandRouter under any sequence of add_handler and route calls
SpecRouter == RouterOnlyInit /\ [][RouterNext]_vars

CommandNext ==
    \/ \E event_type \in CommandEventTypes : AddHandler(event_type, 0, MaxHandlers)
    \/ \E call \in CommandCalls : Route(call[1], call[2])

\* CommandRouter with commands registered and command texts routed
SpecCommand == RouterOnlyInit /\ [][CommandNext]_vars

MatchesNext ==
    \E event_type \in MatchesEventTypes, update \in MatchesUpdates :
        Matches(event_type, update)

\* EventType.matches called on any event type with any update
SpecMatches == RouterOnlyInit /\ [][MatchesNext]_vars

ReachNext ==
    \/ \E event_type \in ReachEventTypes : AddHandler(event_type, 0, MaxHandlers)
    \/ \E event_type \in ReachEventTypes : Route(MessageUpdate(event_type.text), "message")

\* CommandRouter with exact-text Message specs registered and their texts routed
SpecReach == RouterOnlyInit /\ [][ReachNext]_vars

PriorityNext ==
    \/ \E event_type \in PriorityEventTypes, priority \in PriorityPriorities :
          AddHandler(event_type, priority, MaxPriorityHandlers)
    \/ \E call \in PriorityCalls : Route(call[1], call[2])

\* CommandRouter's priority tables under any sequence of add_handler and route calls
SpecPriority == RouterOnlyInit /\ [][PriorityNext]_vars

ChainNext ==
    \/ \E text \in ChainTexts : ProcessUpdate(text)
    \/ NextMiddleware
    \/ TerminalHandler
    \/ OnUpdate
    \/ ReturnToMiddleware
    \/ RaiseIntoMiddleware
    \/ ExecuteReturns
    \/ ExecuteExcept
    \/ ExecuteOnError
    \/ ExecuteReraise
    \/ ProcessExcept
    \/ ProcessOnError

\* _process_update of one update, for every middleware list and handler
ChainOnlyInit == RouterInit /\ ChainInit /\ PollIdle /\ FilterInit /\ LimiterIdle
                     /\ AnalyticsIdle

ContextOnlyInit == RouterInit /\ HandledUpdate /\ PollIdle /\ FilterInit /\ LimiterIdle
                     /\ AnalyticsIdle

ContextNext ==
    \/ \E text \in ContextTexts : ProcessUpdate(text)
    \/ TerminalHandler
    \/ ExecuteReturns

\* _process_update of one update with a handler, for any text of the update
SpecContext == ContextOnlyInit /\ [][ContextNext]_vars

SpecChain == ChainOnlyInit /\ [][ChainNext]_vars

\* the circuit_breaker_threshold arguments run_polling is called with
Thresholds == {1, 3, 5, 11}

\* the batches get_updates can return: ascending update ids not below the offset
Batches ==
    {b \in UNION {[1..n -> 1..MaxUpdateId] : n \in 0..MaxUpdateId} :
        /\ \A i \in 1..Len(b) : b[i] >= update_offset
        /\ \A i \in 1..(Len(b) - 1) : b[i] < b[i + 1]}

\* the webhook_url arguments run_webhook is called with: None, "" and a URL
WebhookUrls == {NoText, <<>>, <<"u">>}

PollOnlyInit == RouterInit /\ NoUpdate /\ PollIdle /\ FilterInit /\ LimiterIdle
                     /\ AnalyticsIdle

\* the steps of the polling loop, of its start-up and of its end
LoopNext ==
    \/ StartupSucceeds
    \/ \E started \in BOOLEAN : StartupFails(started)
    \/ LoopTop
    \/ \E batch \in Batches : FetchSucceeds(batch)
    \/ FetchFails
    \/ CircuitSleepEnds
    \/ BackoffSleepEnds
    \/ \E submit_raises \in BOOLEAN : SubmitUpdate(submit_raises)
    \/ BatchDone
    \/ Finally

\* run_polling is called on the idle client; stop() is called at any time
PollNext ==
    \/ \E threshold \in Thresholds : ~running /\ RunPolling(threshold)
    \/ LoopNext
    \/ Stop

\* run_polling and run_webhook are called at any time, also during a run
CallsNext ==
    \/ \E threshold \in Thresholds : RunPolling(threshold)
    \/ \E webhook_url \in WebhookUrls : RunWebhook(webhook_url)
    \/ LoopNext
    \/ Stop
    \/ WebhookStartupSucceeds
    \/ \E started \in BOOLEAN : WebhookStartupFails(started)
    \/ WebhookLoopExits
    \/ WebhookFinally

\* run_polling with any update source and any stop() call
SpecPoll == PollOnlyInit /\ [][PollNext]_vars

\* the code runs on: a step of run_polling that is enabled is taken; the fetch
\* in flight returns or raises, and a sleep ends
PollFairness ==
    /\ WF_vars(StartupSucceeds \/ \E started \in BOOLEAN : StartupFails(started))
    /\ WF_vars(LoopTop)
    /\ WF_vars(FetchFails \/ \E batch \in Batches : FetchSucceeds(batch))
    /\ WF_vars(CircuitSleepEnds)
    /\ WF_vars(BackoffSleepEnds)
    /\ WF_vars(\E submit_raises \in BOOLEAN : SubmitUpdate(submit_raises))
    /\ WF_vars(BatchDone)
    /\ WF_vars(Finally)

\* run_polling, run_webhook and stop() called in any order on one client
SpecCalls == PollOnlyInit /\ [][CallsNext]_vars

\* run_polling with any update source and any stop() call, running on
SpecPollFair == PollOnlyInit /\ [][PollNext]_vars /\ PollFairness

\* circuit_breaker_threshold arguments beyond the exponents a float holds
OutageThresholds == {FloatMaxExponent, FloatMaxExponent + 1}

\* a long outage: get_updates raises, or returns an empty batch
OutageNext ==
    \/ \E threshold \in OutageThresholds : ~running /\ RunPolling(threshold)
    \/ StartupSucceeds
    \/ LoopTop
    \/ FetchSucceeds(<<>>)
    \/ FetchFails
    \/ CircuitSleepEnds
    \/ BackoffSleepEnds
    \/ BatchDone
    \/ Stop
    \/ Finally

\* run_polling through an outage of the update source
SpecOutage == PollOnlyInit /\ [][OutageNext]_vars

RestartNext ==
    \/ \E threshold \in {3} : ~running /\ RunPolling(threshold)
    \/ LoopNext
    \/ Stop
    \/ SecondRunPolling
    \/ SecondStartupSucceeds
    \/ SecondLoopTop
    \/ SecondFetchReturns
    \/ SecondFinally

\* run_polling and stop called by several tasks of one client
SpecRestart == PollOnlyInit /\ [][RestartNext]_vars

\* the limiters: RateLimiter(rate, per=2), without and with a storage
Limiters == [rate : {1, 2}, per : {2}, storage : BOOLEAN]

LimiterOnlyInit ==
    /\ RouterInit /\ NoUpdate /\ PollIdle /\ FilterInit /\ AnalyticsIdle
    /\ limiter \in Limiters
    /\ clock = 0
    /\ memory_store = [key \in Keys |-> <<>>]
    /\ storage = [key \in Keys |-> NoCounter]
    /\ requests = <<>>

LimiterNext ==
    \/ Tick
    \/ \E key \in Keys : OnUpdateMemory(key)
    \/ \E key \in Keys : OnUpdateStorage(key)
    \/ \E i \in 1..MaxRequests : StorageGet(i)
    \/ \E i \in 1..MaxRequests : StorageIncr(i)
    \/ \E i \in 1..MaxRequests : StorageExpire(i)

\* a RateLimiter whose on_update is called by concurrent tasks as time goes by
SpecLimiter == LimiterOnlyInit /\ [][LimiterNext]_vars

\* the users of the updates an AnalyticsCollector sees; None is an update
\* without a user
AnalyticsUsers == {None, 1, 2}

\* the texts of those updates
AnalyticsTexts == {<<"/", "a">>, <<"/", "a", " ", "x">>, <<"h", "i">>}

\* AnalyticsCollector(max_sessions=..., session_timeout=...) before any update
AnalyticsOnlyInit ==
    /\ RouterInit /\ NoUpdate /\ PollIdle /\ FilterInit /\ LimiterIdle
    /\ AnalyticsFresh
    /\ max_sessions \in {1, 2}
    /\ session_timeout \in {1, 2}

AnalyticsNext ==
    \/ AnalyticsTick
    \/ \E user \in AnalyticsUsers, text \in AnalyticsTexts : AnalyticsOnUpdate(user, text)
    \/ AnalyticsHandlerReturns
    \/ AnalyticsHandlerRaises
    \/ AnalyticsChainOnError
    \/ AnalyticsProcessOnError
    \/ SessionCleanupTask

\* an AnalyticsCollector, the only middleware, through which updates of any
\* users are processed one after the other as time goes by
SpecAnalytics == AnalyticsOnlyInit /\ [][AnalyticsNext]_vars

\* the leaf filters: three provided leaves and a Filter whose __call__ is the
\* base class's
ProvidedLeaves ==
    {[op |-> "Text"], [op |-> "Private"]}
        \cup {[op |-> "Custom", func |-> func] : func \in {"len_text", "text"}}

Leaves == ProvidedLeaves \cup {[op |-> "Base"]}

\* the filters a filter is combined with: a leaf or a negated leaf
Operands == Leaves \cup {[op |-> "Not", filter |-> leaf] : leaf \in Leaves}

\* the messages the filters are called with
Messages ==
    {[text |-> text, chat |-> chat] :
        text \in {[kind |-> "absent", value |-> <<>>], [kind |-> "None", value |-> <<>>],
                  [kind |-> "int", value |-> <<>>], [kind |-> "str", value |-> <<" ">>],
                  [kind |-> "str", value |-> <<"h", "i">>]},
        chat \in {[kind |-> "absent", type |-> "None"], [kind |-> "None", type |-> "None"],
                  [kind |-> "chat", type |-> "private"],
                  [kind |-> "chat", type |-> "group"]}}

FilterOnlyInit == RouterInit /\ NoUpdate /\ PollIdle /\ FilterInit /\ LimiterIdle
                     /\ AnalyticsIdle

FilterNext ==
    \/ \E leaf \in Leaves : FilterLeaf(leaf)
    \/ \E other \in Operands, other_first \in BOOLEAN : FilterAnd(other, other_first)
    \/ \E other \in Operands, other_first \in BOOLEAN : FilterOr(other, other_first)
    \/ FilterInvert
    \/ \E message \in Messages : FilterCall(message)

\* filters are composed and called
SpecFilter == FilterOnlyInit /\ [][FilterNext]_vars

-----------------------------------------------------------------------------
(* Claims about CommandTrie and CommandRouter *)

\* C1: CommandTrie is a map from command strings to bindings: after any sequence
\* of insert calls, search(c) is the binding of the latest insert of exactly c,
\* and no-match for every string never inserted (prefixes and extensions of
\* inserted commands included).
C1_TrieIsMap ==
    \A s \in StringsUpTo(TrieAlphabet, MaxCmdLen + 1) :
        search(command_trie, s) = IF s \in DOMAIN inserted THEN inserted[s] ELSE NoBinding

\* C1 witness: "/a" was inserted twice with different handlers (the second one
\* is bound), while its proper prefix "/" and its extension "/aa" were not.
C1_Witness ==
    /\ inserts = 2
    /\ inserted[<<"/", "a">>].handler = 2
    /\ search(command_trie, <<"/", "a">>).handler = 2
    /\ inserted[<<"/">>] = NoBinding
    /\ search(command_trie, <<"/">>) = NoBinding
    /\ search(command_trie, <<"/", "a", "a">>) = NoBinding
    /\ Cardinality({c \in TrieCommands : inserted[c] # NoBinding}) = 1

\* the command the fast path extracts from a text: trimmed, first
\* whitespace-delimited token, cut at the first '@'
ExtractedCommand(text) == BeforeAt(FirstToken(Strip(text)))

\* the add_handler calls, in call order, that registered a Message with exact text command
CommandRegistrations(command) ==
    {i \in 1..Len(registrations) :
        /\ registrations[i].event_type.name = "Message"
        /\ registrations[i].event_type.text = command}

\* the table entries of update_type's table that match the update
MatchingEntries(update, update_type) ==
    {i \in 1..Len(RouteHandlers(update_type)) :
        matches(RouteHandlers(update_type)[i].event_type, update) # NoMatch}

\* C2: for a message update whose text begins with '/', if the extracted command
\* is bound in the trie, route returns the trie handler of that command with no
\* captures and without consulting the priority table, even when a handler of
\* higher priority in the message table matches the update.
C2_FastPathBypassesPriority ==
    (/\ routed.called
     /\ routed.update_type = "message"
     /\ Truthy(routed.update.text)
     /\ StartsWith(routed.update.text, <<"/">>)
     /\ CommandRegistrations(ExtractedCommand(routed.update.text)) # {})
    => LET regs == CommandRegistrations(ExtractedCommand(routed.update.text))
           latest == CHOOSE i \in regs : \A j \in regs : j <= i
       IN  /\ routed.result.handler = registrations[latest].handler
           /\ routed.result.event_type = registrations[latest].event_type
           /\ routed.result.match = NoMatch
           /\ routed.result.attempted = <<>>

\* C2 witness: "/p" is registered with priority 0, a pattern handler of priority
\* 10 in the message table matches the update "/p", and route returned the
\* command's handler.
C2_Witness ==
    /\ routed.called
    /\ routed.update_type = "message"
    /\ routed.update.text = <<"/", "p">>
    /\ \E i \in CommandRegistrations(<<"/", "p">>) :
          /\ registrations[i].priority = 0
          /\ routed.result.handler = registrations[i].handler
    /\ \E i \in MatchingEntries(routed.update, "message") :
          /\ text_handlers[i].priority = 10
          /\ text_handlers[i].event_type.patterns # <<>>

\* a handler table is sorted by priority descending, equal priorities in registration order
SortedStable(handlers) ==
    \A i, j \in 1..Len(handlers) :
        i < j => \/ handlers[i].priority > handlers[j].priority
                 \/ /\ handlers[i].priority = handlers[j].priority
                    /\ handlers[i].handler < handlers[j].handler

\* C3: after any sequence of add_handler calls every per-update-type table is
\* sorted by priority descending with equal priorities in registration order,
\* and route attempts the handlers of the table in exactly that order.
C3_TablesSortedStable ==
    /\ SortedStable(text_handlers)
    /\ SortedStable(callback_handlers)
    /\ SortedStable(inline_handlers)
    /\ \A n \in DOMAIN other_handlers : SortedStable(other_handlers[n])
    /\ (routed.called /\ ~routed.result.fast) =>
          LET table == RouteHandlers(routed.update_type)
              attempted == routed.result.attempted
          IN  /\ Len(attempted) <= Len(table)
              /\ \A i \in 1..Len(attempted) : attempted[i] = table[i].handler
              /\ routed.result.handler = None => Len(attempted) = Len(table)

\* C3 witness: message handlers registered with priorities 5, 1, 5, 3 were
\* attempted as the first 5, the second 5, 3, 1.
C3_Witness ==
    /\ Len(registrations) = 4
    /\ [i \in 1..4 |-> registrations[i].priority] = <<5, 1, 5, 3>>
    /\ \A i \in 1..4 : registrations[i].event_type.name = "Message"
    /\ routed.called
    /\ routed.result.attempted = <<1, 3, 4, 2>>

\* C4: when the trie fast path does not hit, route returns the first entry in
\* table order of the update type's table whose event type matches the update,
\* and the no-handler triple when no entry matches.
C4_FirstMatchWins ==
    (routed.called /\ ~routed.result.fast) =>
        LET table == CASE routed.update_type = "message" -> text_handlers
                       [] routed.update_type = "callback_query" -> callback_handlers
                       [] routed.update_type = "inline_query" -> inline_handlers
                       [] OTHER -> IF routed.update_type \in DOMAIN other_handlers
                                   THEN other_handlers[routed.update_type]
                                   ELSE <<>>
            hits == {i \in 1..Len(table) :
                        matches(table[i].event_type, routed.update) # NoMatch}
        IN  IF hits = {}
            THEN /\ routed.result.handler = None
                 /\ routed.result.match = NoMatch
                 /\ routed.result.event_type = NoEventType
            ELSE LET first == CHOOSE i \in hits : \A j \in hits : i <= j
                 IN  /\ routed.result.handler = table[first].handler
                     /\ routed.result.event_type = table[first].event_type

\* C4 witness: the fast path did not hit, the first table entry does not match
\* the update, two later entries do, and route returned the earlier of the two.
C4_Witness ==
    /\ routed.called
    /\ ~routed.result.fast
    /\ routed.update_type = "message"
    /\ Len(text_handlers) = 3
    /\ MatchingEntries(routed.update, "message") = {2, 3}
    /\ routed.result.handler = text_handlers[2].handler

\* C4 witness of the other case: entries were scanned and none matched
C4_WitnessNoHandler ==
    /\ routed.called
    /\ ~routed.result.fast
    /\ Len(routed.result.attempted) >= 2
    /\ routed.result.handler = None

\* command is the command of the text: the text trimmed, cut before its first
\* whitespace and before its first '@'
IsCommandOf(command, text) ==
    LET trimmed == Strip(text)
    IN  /\ StartsWith(trimmed, command)
        /\ \A i \in 1..Len(command) : command[i] \notin {" ", "@"}
        /\ \/ Len(command) = Len(trimmed)
           \/ trimmed[Len(command) + 1] \in {" ", "@"}

\* the add_handler calls that registered a Message whose exact text is the
\* command of the text
CommandsOf(text) ==
    {i \in 1..Len(registrations) :
        /\ registrations[i].event_type.name = "Message"
        /\ Truthy(registrations[i].event_type.text)
        /\ IsCommandOf(registrations[i].event_type.text, text)}

\* C22: the fast path trims the text, keeps its first whitespace-delimited
\* token, drops everything from '@' on and compares case-sensitively: a message
\* text beginning with '/' hits the trie exactly when its command is the text
\* of a registered command ("/st@b h" hits "/st"; "/s", "/stt" and "/St" do
\* not), and the handler is that of the latest such registration.
C22_CommandExtraction ==
    (routed.called /\ routed.update_type = "message" /\ Truthy(routed.update.text)) =>
        LET regs == CommandsOf(routed.update.text)
        IN  IF StartsWith(Strip(routed.update.text), <<"/">>) /\ regs # {}
            THEN /\ routed.result.fast
                 /\ routed.result.handler =
                       registrations[CHOOSE i \in regs : \A j \in regs : j <= i].handler
            ELSE ~routed.result.fast

\* C22 witness: "/st" and "/St" are registered, and " /st@b h" was routed to
\* the handler of "/st"
C22_Witness ==
    /\ routed.called
    /\ routed.update_type = "message"
    /\ routed.update.text = <<" ", "/", "s", "t", "@", "b", " ", "h">>
    /\ Len(registrations) = 2
    /\ registrations[1].event_type.text = <<"/", "s", "t">>
    /\ registrations[2].event_type.text = <<"/", "S", "t">>
    /\ routed.result.fast
    /\ routed.result.handler = registrations[1].handler

\* C22 witness of a miss: only "/st" is registered and "/St" was routed to no
\* handler
C22_WitnessMiss ==
    /\ routed.called
    /\ routed.update_type = "message"
    /\ routed.update.text = <<"/", "S", "t">>
    /\ Len(registrations) = 1
    /\ registrations[1].event_type.text = <<"/", "s", "t">>
    /\ routed.result.handler = None

\* the event type carries a constraint besides its exact text: a pattern, a
\* custom predicate or an extra field constraint
Constrained(event_type) ==
    \/ event_type.patterns # <<>>
    \/ event_type.func # "None"
    \/ event_type.filters # NoFilters

\* the handler is an entry of the message table
InTextHandlers(handler) == \E k \in 1..Len(text_handlers) : text_handlers[k].handler = handler

\* C23: a Message spec goes into the trie only when it is an exact-text spec
\* starting with '/' with no other constraint; a spec that also carries a
\* pattern, a custom predicate or extra field constraints is registered in the
\* message table, and its handler is never selected for an update that
\* violates those constraints.
C23_OnlyPlainCommandsInTrie ==
    /\ \A i \in 1..Len(registrations) :
          (registrations[i].event_type.name = "Message"
             /\ Constrained(registrations[i].event_type))
            => InTextHandlers(registrations[i].handler)
    /\ \A i \in 1..Len(registrations) :
          (/\ routed.called
           /\ routed.result.handler = registrations[i].handler
           /\ Constrained(registrations[i].event_type))
            => MatchesRest(registrations[i].event_type, routed.update) # NoMatch

\* the part of C23 that holds of the code: an exact-text Message spec starting
\* with '/' is in the trie and not in the message table
C23_CommandsInTrie ==
    \A i \in 1..Len(registrations) :
        (/\ registrations[i].event_type.name = "Message"
         /\ Truthy(registrations[i].event_type.text)
         /\ StartsWith(registrations[i].event_type.text, <<"/">>))
          => /\ ~InTextHandlers(registrations[i].handler)
             /\ search(command_trie, registrations[i].event_type.text) # NoBinding

\* the EventType class of an update type
EventTypeOf(update_type) ==
    CASE update_type = "message" -> "Message"
      [] update_type = "callback_query" -> "CallbackQuery"
      [] update_type = "inline_query" -> "InlineQuery"
      [] update_type = "edited_message" -> "EditedMessage"

\* the add_handler calls that registered an event type of the update type's
\* class that matches the update
MatchingRegistrations(update, update_type) ==
    {i \in 1..Len(registrations) :
        /\ registrations[i].event_type.name = EventTypeOf(update_type)
        /\ matches(registrations[i].event_type, update) # NoMatch}

\* C24: for an update type other than message, callback_query and
\* inline_query, route scans the handlers registered with the event type of
\* that update type: when one of them matches the update, route returns a
\* matching handler of that type.
C24_OtherTypesRouted ==
    (routed.called /\ routed.update_type = "edited_message"
       /\ MatchingRegistrations(routed.update, routed.update_type) # {})
      => \E i \in MatchingRegistrations(routed.update, routed.update_type) :
            routed.result.handler = registrations[i].handler

\* the same statement for the callback_query table, which holds of the code
C24_CallbackQueryRouted ==
    (routed.called /\ routed.update_type = "callback_query"
       /\ MatchingRegistrations(routed.update, routed.update_type) # {})
      => \E i \in MatchingRegistrations(routed.update, routed.update_type) :
            routed.result.handler = registrations[i].handler

\* C32: matches reports a match only if every constraint the event type
\* carries holds for the update: the exact text equals the update's text, at
\* least one pattern matches when patterns are given, the custom predicate
\* returns true, and every extra field constraint is satisfied.
C32_MatchMeansAllHold ==
    (routed.called /\ routed.result # NoMatch) =>
        LET et == routed.event_type
            update == routed.update
        IN  /\ Truthy(et.text) => ("text" \in DOMAIN update /\ update.text = et.text)
            /\ et.patterns # <<>> =>
                  /\ "text" \in DOMAIN update
                  /\ Truthy(update.text)
                  /\ \E i \in 1..Len(et.patterns) : StartsWith(update.text, et.patterns[i])
            /\ et.func # "None" => Func(et.func, update)
            /\ FiltersHold(et.filters, update)

\* the part of C32 that holds of the code: for an event type without patterns
\* and an update that has a text attribute, a match means every constraint holds
C32_WithoutPatterns ==
    (/\ routed.called
     /\ routed.result # NoMatch
     /\ routed.event_type.patterns = <<>>
     /\ "text" \in DOMAIN routed.update) =>
        /\ Truthy(routed.event_type.text) => routed.update.text = routed.event_type.text
        /\ routed.event_type.func # "None" => Func(routed.event_type.func, routed.update)
        /\ FiltersHold(routed.event_type.filters, routed.update)

\* matches returned the regex match of pattern 'h' on "hi" although the custom
\* predicate is false for every update
C32_PatternSkipsPredicate ==
    /\ routed.called
    /\ routed.event_type = EventType("Message", NoText, << <<"h">> >>, "never", NoFilters)
    /\ routed.update = MessageUpdate(<<"h", "i">>)
    /\ routed.result = [kind |-> "Match", group |-> <<"h">>]

\* C33: whenever route returns a handler of a priority table whose event type
\* carries patterns, the returned match is a regex match with its captures,
\* never None, also for updates that have no text.
C33_PatternHandlerHasMatch ==
    (/\ routed.called
     /\ ~routed.result.fast
     /\ routed.result.handler # None
     /\ routed.result.event_type.patterns # <<>>)
      => routed.result.match.kind = "Match"

\* the part of C33 that holds of the code: for an update with a non-empty text
\* and an event type with patterns and no exact text, the match is a regex match
C33_TextUpdateHasMatch ==
    (/\ routed.called
     /\ ~routed.result.fast
     /\ routed.result.handler # None
     /\ routed.result.event_type.patterns # <<>>
     /\ routed.result.event_type.text = NoText
     /\ Truthy(routed.update.text))
      => routed.result.match.kind = "Match"

\* a message update without text was routed to the handler of
\* Message(pattern='/') with no match
C33_NoTextNoMatch ==
    /\ routed.called
    /\ routed.update = MessageUpdate(NoText)
    /\ routed.update_type = "message"
    /\ routed.result.handler # None
    /\ routed.result.event_type = MessageSlashPattern
    /\ routed.result.match = NoMatch

\* the add_handler calls that registered a Message with this exact text
RegisteredWithText(text) ==
    {i \in 1..Len(registrations) :
        /\ registrations[i].event_type.name = "Message"
        /\ registrations[i].event_type.text = text}

\* C34: every handler registered with a Message whose exact text t begins
\* with '/' is reachable: for a message update whose text is exactly t, route
\* returns a handler registered with the text t, also when t contains
\* whitespace or '@'.
C34_CommandsReachable ==
    (/\ routed.called
     /\ routed.update_type = "message"
     /\ StartsWith(routed.update.text, <<"/">>)
     /\ RegisteredWithText(routed.update.text) # {})
      => \E i \in RegisteredWithText(routed.update.text) :
            routed.result.handler = registrations[i].handler

\* the part of C34 that holds of the code: a text without whitespace and
\* without '@' reaches a handler registered with it
C34_PlainCommandsReachable ==
    (/\ routed.called
     /\ routed.update_type = "message"
     /\ StartsWith(routed.update.text, <<"/">>)
     /\ \A k \in 1..Len(routed.update.text) : routed.update.text[k] \notin {" ", "@"}
     /\ RegisteredWithText(routed.update.text) # {})
      => \E i \in RegisteredWithText(routed.update.text) :
            routed.result.handler = registrations[i].handler

\* only Message(text='/s@b') is registered, and the message "/s@b" was routed
\* to no handler
C34_AtTextUnreachable ==
    /\ routed.called
    /\ Len(registrations) = 1
    /\ registrations[1].event_type.text = <<"/", "s", "@", "b">>
    /\ routed.update.text = <<"/", "s", "@", "b">>
    /\ routed.result.handler = None

-----------------------------------------------------------------------------
(* Claims about _execute_middleware_chain and _process_update *)

\* the middleware notified by _execute_middleware_chain's on_error loop, in call order
ChainNotified ==
    LET calls == SelectSeq(error_log, LAMBDA e : e.ctx)
    IN  [k \in 1..Len(calls) |-> calls[k].mw]

\* the middleware among the first n that implement on_error, in registration order
RECURSIVE ImplementOnError(_)
ImplementOnError(n) ==
    IF n = 0
    THEN <<>>
    ELSE IF middleware[n].on_error # "none"
         THEN Append(ImplementOnError(n - 1), n)
         ELSE ImplementOnError(n - 1)

\* every middleware calls next exactly once and catches nothing (one without
\* on_update is skipped, which is the same)
AllPassThrough ==
    \A i \in 1..Len(middleware) : middleware[i].on_update \in {"pass", "none"}

\* _execute_middleware_chain has raised to its caller
ExecuteRaised == execute_result \notin {"None", "returned"}

\* C5: when the terminal handler raises and every middleware is pass-through,
\* execute calls on_error exactly once on every middleware that implements it,
\* in registration order, and the caller of execute observes the handler's
\* exception.
C5_ErrorFanout ==
    (routing = "handler" /\ handler_raises /\ AllPassThrough) =>
        /\ execute_result \in {"None", "HandlerError"}
        /\ execute_result = "HandlerError" =>
              /\ ChainNotified = ImplementOnError(Len(middleware))
              /\ \A k \in 1..Len(error_log) : error_log[k].error = "HandlerError"
        /\ pc = "done" => execute_result = "HandlerError"

\* C5 witness: middleware [M1, M2], both pass-through with on_error, the handler
\* raised, and execute raised the handler's exception after notifying M1 then M2.
C5_Witness ==
    /\ Len(middleware) = 2
    /\ AllPassThrough
    /\ handler_raises
    /\ handler_calls = 1
    /\ execute_result = "HandlerError"
    /\ ChainNotified = <<1, 2>>

\* C6: for one update the terminal handler is invoked at most once, whatever the
\* middleware do with next (the claim as stated; the code violates it).
C6_HandlerAtMostOnce == handler_calls <= 1

\* the on_error calls middleware i has received
OnErrorCalls(i) == Cardinality({k \in 1..Len(error_log) : error_log[k].mw = i})

\* C7: for one handler failure in _process_update each middleware implementing
\* on_error receives at most one on_error call (the claim as stated; the code
\* violates it).
C7_OneOnErrorPerFailure ==
    (routing = "handler" /\ handler_raises /\ handler_calls <= 1) =>
        \A i \in 1..Len(middleware) : OnErrorCalls(i) <= 1

\* the nearest middleware before i that has an on_update, 0 when there is none
Predecessor(i) ==
    LET before == {j \in 1..(i - 1) : middleware[j].on_update # "none"}
    IN  IF before = {} THEN 0 ELSE CHOOSE j \in before : \A l \in before : l <= j

\* C8, first part: the on_update hooks run in registration order
C8_RegistrationOrder ==
    \A k, l \in 1..Len(update_log) : k < l => update_log[k].mw < update_log[l].mw

\* C8, second part: an on_update is started only by a next call of its predecessor
C8_StartedByPredecessor ==
    \A k \in 1..Len(update_log) : update_log[k].caller = Predecessor(update_log[k].mw)

\* C8, third part: the handler is invoked only after every on_update was entered
C8_HandlerAfterWholeList ==
    handler_calls > 0 =>
        \A i \in 1..Len(middleware) :
            middleware[i].on_update # "none" =>
                \E k \in 1..Len(update_log) : update_log[k].mw = i

\* C8: on_update hooks run in registration order, each started only when its
\* predecessor calls next (one without on_update counting as having called it),
\* and the handler runs only after the whole list (the claim as stated; the
\* code violates its second part).
C8_OnUpdateOrder ==
    /\ C8_RegistrationOrder
    /\ C8_StartedByPredecessor
    /\ C8_HandlerAfterWholeList

\* C9: in execute's on_error loop an exception of one on_error is swallowed:
\* every later middleware is still notified, and the exception execute raises
\* is the one that reached it, never the on_error's.
C9_OnErrorSwallowed ==
    ExecuteRaised =>
        /\ execute_result \in {"HandlerError", "UpdateError"}
        /\ ChainNotified = ImplementOnError(Len(middleware))
        /\ \A k \in 1..Len(error_log) : error_log[k].error = execute_result
        /\ execute_result = "HandlerError" => handler_raises /\ handler_calls > 0
        /\ execute_result = "UpdateError" =>
              \E k \in 1..Len(update_log) : middleware[update_log[k].mw].on_update = "raise"

\* C9 witness: M1's on_error raised, M2 was notified after it, and execute
\* raised the handler's exception.
C9_Witness ==
    /\ Len(middleware) = 2
    /\ middleware[1].on_error = "raise"
    /\ middleware[2].on_error = "ok"
    /\ ChainNotified = <<1, 2>>
    /\ execute_result = "HandlerError"

\* C25: an update for which no handler matches is dropped silently:
\* _process_update builds no Context, calls no on_update and no on_error,
\* invokes no handler, raises nothing and leaves the statistics unchanged.
C25_NoRouteDropped ==
    (routing = "no_handler" /\ pc # "idle") =>
        /\ pc = "done"
        /\ ctx = NoContext
        /\ update_log = <<>>
        /\ error_log = <<>>
        /\ handler_calls = 0
        /\ exc = "None"
        /\ stats = [updates_processed |-> 0, errors_handled |-> 0, handlers_executed |-> 0]

\* C25 witness: an update without a handler was processed by a client with
\* two middleware that have an on_update and an on_error
C25_Witness ==
    /\ routing = "no_handler"
    /\ pc = "done"
    /\ Len(middleware) = 2
    /\ \A i \in 1..2 : middleware[i].on_update = "pass" /\ middleware[i].on_error = "ok"

\* the first and the last position of the k-th whitespace-delimited token of
\* a text
TokenStarts(text) ==
    {i \in 1..Len(text) : text[i] # " " /\ (i = 1 \/ text[i - 1] = " ")}
TokenEnds(text) ==
    {i \in 1..Len(text) : text[i] # " " /\ (i = Len(text) \/ text[i + 1] = " ")}
Kth(positions, k) == CHOOSE i \in positions : Cardinality({j \in positions : j <= i}) = k

\* the whitespace-delimited tokens of a text, in order
Tokens(text) ==
    [k \in 1..Cardinality(TokenStarts(text)) |->
        SubSeq(text, Kth(TokenStarts(text), k), Kth(TokenEnds(text), k))]

\* C26: the Context's args are populated only when the text starts with '/':
\* they are the whitespace-delimited tokens after the first one, so the empty
\* list for a command without arguments, and the empty list for a text that
\* does not start with '/'.
C26_ContextArgs ==
    ctx.built =>
        ctx.args = IF ctx.text # NoText /\ ctx.text # <<>> /\ Head(ctx.text) = "/"
                   THEN Tail(Tokens(ctx.text))
                   ELSE <<>>

\* C26 witness: the Context of "/a  a" has the args ["a"]
C26_Witness ==
    /\ ctx.built
    /\ ctx.text = <<"/", "a", " ", " ", "a">>
    /\ ctx.args = << <<"a">> >>

\* C26 witness of several arguments: the Context of "/ a a" has the args
\* ["a", "a"]
C26_WitnessTwoArgs ==
    /\ ctx.built
    /\ ctx.text = <<"/", " ", "a", " ", "a">>
    /\ ctx.args = << <<"a">>, <<"a">> >>

\* C26 witnesses of the other cases: a command without arguments, and a text
\* with two tokens that does not start with '/'
C26_WitnessNoArgs ==
    /\ ctx.built
    /\ ctx.text = <<"/", "a", " ">>
    /\ ctx.args = <<>>

C26_WitnessNoCommand ==
    /\ ctx.built
    /\ ctx.text = <<" ", "/", "a", " ", "a">>
    /\ ctx.args = <<>>

\* routing, the construction of the Context, an on_update or the handler raised
SomethingRaised ==
    \/ routing \in {"route_raises", "context_raises"}
    \/ handler_raises /\ handler_calls >= 1
    \/ \E k \in 1..Len(update_log) : middleware[update_log[k].mw].on_update = "raise"

\* an exception reached the except clause of _process_update
ReachedProcessUpdate ==
    \/ routing \in {"route_raises", "context_raises"}
    \/ ExecuteRaised

FailureCounted ==
    stats = [updates_processed |-> 0, errors_handled |-> 1, handlers_executed |-> 0]

EscapesOutermost == pc = "raise" /\ frames = <<>>

\* C35: the on_error pass of _execute_middleware_chain starts if and only if
\* an exception escapes the outermost middleware; when the exceptions raised
\* below a middleware are caught by it and the chain returns normally, no
\* on_error is invoked on any middleware and _execute_middleware_chain returns
\* normally; when it raises, every middleware that implements on_error was
\* notified.
C35_ErrorPassIffEscapes ==
    /\ [][EscapesOutermost <=> (pc # "error_pass" /\ pc' = "error_pass")]_vars
    /\ []((pc = "done" /\ execute_result = "returned") => error_log = <<>>)
    /\ [](ExecuteRaised => ChainNotified = ImplementOnError(Len(middleware)))
    /\ []((pc = "done" /\ routing = "handler") => execute_result # "None")

\* C35 witness: the handler raised, the second of three middleware caught the
\* exception, no on_error was called although two middleware implement it, and
\* _execute_middleware_chain returned
C35_Witness ==
    /\ pc = "done"
    /\ Len(middleware) = 3
    /\ middleware[1] = Middleware("pass", "ok")
    /\ middleware[2] = Middleware("catch", "ok")
    /\ middleware[3].on_update = "pass"
    /\ handler_raises
    /\ handler_calls = 1
    /\ execute_result = "returned"
    /\ error_log = <<>>

\* C35 witness of the other direction: the first middleware raised before
\* calling next, no on_update was left to catch it, and the on_error pass ran
\* over both middleware
C35_WitnessEscaped ==
    /\ pc = "done"
    /\ Len(middleware) = 2
    /\ middleware[1] = Middleware("raise", "ok")
    /\ middleware[2] = Middleware("catch", "ok")
    /\ execute_result = "UpdateError"
    /\ ChainNotified = <<1, 2>>

\* the updates, of the one processed, whose terminal handler was invoked and
\* returned normally
HandlerReturned == IF handler_calls >= 1 /\ ~handler_raises THEN 1 ELSE 0

\* C36: after the processing of an update, updates_processed equals
\* handlers_executed and both equal the number of updates whose terminal
\* handler was invoked and returned normally, also when a middleware returns
\* without calling next.
C36_CountsHandlerRuns ==
    pc = "done" =>
        /\ stats.updates_processed = stats.handlers_executed
        /\ stats.handlers_executed = HandlerReturned

\* the part of C36 that holds of the code: the two counters are equal at every
\* moment, and they count the handler's normal returns when every middleware
\* calls next once and catches nothing
C36_CountersEqual ==
    /\ stats.updates_processed = stats.handlers_executed
    /\ (pc = "done" /\ AllPassThrough) => stats.handlers_executed = HandlerReturned

\* a middleware returned without calling next, the handler was never invoked,
\* and the update is counted in handlers_executed
C36_BlockedUpdateCounted ==
    /\ pc = "done"
    /\ middleware = <<Middleware("block", "ok")>>
    /\ handler_calls = 0
    /\ stats.handlers_executed = 1
    /\ stats.updates_processed = 1

-----------------------------------------------------------------------------
(* Claims about run_polling *)

\* C10: on a fetch failure that does not trip the circuit breaker the loop
\* sleeps min(backoff_factor * 2^consecutive_failures, max_backoff), the count
\* including the current failure: with factor 0.5 and maximum 60, the failure
\* counts 1, 2, 3, 4, 5, 10 give sleeps of 1, 2, 4, 8, 16, 60 seconds.
C10_BackoffSequence ==
    poll_pc = "backing_off" =>
        /\ slept.kind = "backoff"
        /\ slept.failures = consecutive_failures
        /\ slept.time = backoff_time
        /\ consecutive_failures >= 1
        /\ consecutive_failures < circuit_breaker_threshold
        \* twice the sleep is min(2^failures, 120) seconds
        /\ 2 * slept.time = Min(Seconds(Pow2(consecutive_failures)), Seconds(120))
        /\ consecutive_failures = 1 => slept.time = Seconds(1)
        /\ consecutive_failures = 2 => slept.time = Seconds(2)
        /\ consecutive_failures = 3 => slept.time = Seconds(4)
        /\ consecutive_failures = 4 => slept.time = Seconds(8)
        /\ consecutive_failures = 5 => slept.time = Seconds(16)
        /\ consecutive_failures = 10 => slept.time = Seconds(60)

\* C10 witness: the tenth consecutive failure, below the threshold, is slept 60 seconds
C10_Witness ==
    /\ poll_pc = "backing_off"
    /\ consecutive_failures = 10
    /\ slept = [kind |-> "backoff", time |-> Seconds(60), failures |-> 10]

\* C11: the fetch failure that brings consecutive_failures to
\* circuit_breaker_threshold opens the circuit breaker: the loop sleeps
\* circuit_breaker_timeout and computes no backoff for that failure; when the
\* sleep ends the counter is 0 and the loop is back at its top, without a
\* further sleep.
C11_CircuitBreaker ==
    [][/\ (/\ poll_pc = "fetch"
           /\ consecutive_failures' = consecutive_failures + 1
           /\ consecutive_failures' = circuit_breaker_threshold)
          => /\ poll_pc' = "circuit_open"
             /\ slept' = [kind |-> "circuit_breaker",
                          time |-> Seconds(CircuitBreakerTimeout),
                          failures |-> circuit_breaker_threshold]
             /\ backoff_time' = backoff_time
       /\ (poll_pc = "circuit_open" /\ poll_pc' # "circuit_open")
          => /\ poll_pc' = "loop"
             /\ consecutive_failures' = 0
             /\ slept' = slept]_vars

\* C11 witness: with threshold 5 the fifth consecutive failure was slept 60
\* seconds as a circuit-breaker sleep, after the 16 second backoff of the
\* fourth, and the loop is back at its top with the counter at 0
C11_Witness ==
    /\ poll_pc = "loop"
    /\ circuit_breaker_threshold = 5
    /\ slept = [kind |-> "circuit_breaker", time |-> Seconds(60), failures |-> 5]
    /\ backoff_time = Seconds(8)
    /\ consecutive_failures = 0

\* C12: after every successful fetch consecutive_failures and backoff_time are
\* 0; the counter is the number of fetch failures since the latest successful
\* fetch, circuit-breaker sleep or start, so the breaker is open only after
\* circuit_breaker_threshold failures with no successful fetch in between.
C12_SuccessResets ==
    /\ poll_pc = "submit" => (consecutive_failures = 0 /\ backoff_time = 0)
    /\ poll_pc \in LoopStates => consecutive_failures = failed_run
    /\ poll_pc = "circuit_open" => failed_run = circuit_breaker_threshold

\* C12 witness: a batch was fetched and submitted, then three failures in a row
\* open the breaker of threshold 3
C12_Witness ==
    /\ poll_pc = "circuit_open"
    /\ circuit_breaker_threshold = 3
    /\ failed_run = 3
    /\ last_batch # <<>>
    /\ submitted = last_batch

\* the last element of a non-empty sequence
Last(seq) == seq[Len(seq)]

\* C13: every get_updates call after a non-empty batch was fetched uses the
\* offset last id + 1 of that batch, whichever of its submissions raised;
\* the offset is past an update as soon as its submission was attempted, so
\* once the batch is walked through the offset is last id + 1.
C13_NextOffset ==
    /\ (poll_pc = "fetch" /\ last_batch # <<>>) => fetch_offset = Last(last_batch) + 1
    /\ (poll_pc = "submit" /\ updates # <<>>) => update_offset <= Head(updates)
    /\ (poll_pc \in LoopStates /\ updates = <<>> /\ last_batch # <<>>)
          => update_offset = Last(last_batch) + 1
    /\ submitted # <<>> => update_offset > Last(submitted)

\* C13 witness: the batch [1, 2, 3] was fetched, the submission of update 2
\* raised, and the next get_updates call uses offset 4
C13_Witness ==
    /\ poll_pc = "fetch"
    /\ last_batch = <<1, 2, 3>>
    /\ submitted = <<1, 3>>
    /\ fetch_offset = 4

\* C14: over the whole run the offset never decreases, and it changes only by
\* moving past the next update of the fetched batch, in the batch's ascending
\* id order.
C14_OffsetMonotonic ==
    [][update_offset' # update_offset
          => /\ update_offset' > update_offset
             /\ poll_pc = "submit"
             /\ updates # <<>>
             /\ update_offset' = Head(updates) + 1
             /\ updates' = Tail(updates)
             /\ \A i \in 1..Len(updates') : updates'[i] >= update_offset']_vars

\* C14 witness: two batches were fetched with a failed fetch between them and
\* the offset moved 0, 2, 3, 4
C14_Witness ==
    /\ last_batch = <<2, 3>>
    /\ submitted = <<1, 2, 3>>
    /\ slept.kind = "backoff"
    /\ update_offset = 4
    /\ poll_pc = "loop"

\* the loop is left only from its top, with the running flag found cleared
ExitOnlyAtLoopTop ==
    (poll_pc \in LoopStates /\ poll_pc' \notin LoopStates)
        => (poll_pc = "loop" /\ ~running /\ poll_pc' = "finally")

\* a step that clears the running flag while the loop runs is stop(): it
\* leaves the program point, the batch in dispatch, the offset, the counters
\* and the pools alone
StopOnlyClearsFlag ==
    (poll_pc \in LoopStates /\ running /\ ~running')
        => UNCHANGED <<poll_pc, updates, submitted, update_offset, fetch_offset,
                       consecutive_failures, backoff_time, slept, pools>>

\* with the flag cleared the loop top starts no fetch, and after the loop no
\* fetch is started
NoFetchAfterStopObserved ==
    /\ (poll_pc = "loop" /\ ~running) => poll_pc' # "fetch"
    /\ poll_pc \in {"finally", "stopped"} => poll_pc' \notin LoopStates

\* C15: the polling loop ends only by finding running false at the top of an
\* iteration, after stop(); stop() changes nothing but the flag, so the fetch
\* in flight, the dispatch of the fetched batch and the sleeps run to their
\* end; once the cleared flag was observed no fetch is started.
C15_CooperativeStop ==
    [][ExitOnlyAtLoopTop /\ StopOnlyClearsFlag /\ NoFetchAfterStopObserved]_vars

\* the parts of C15 about stop() itself
C15_StopIsNotPreemptive == [][StopOnlyClearsFlag /\ NoFetchAfterStopObserved]_vars

\* C16: a stop() during the loop leads to the end of run_polling, the fetch in
\* flight or the sleep having returned; at the end worker_pool.stop() and
\* connection_pool.close() were each called once and running is false.
C16_StopLeadsToExit ==
    /\ [](poll_pc = "stopped" => (~running /\ pools.stopped = 1 /\ pools.closed = 1))
    /\ (poll_pc \in LoopStates /\ ~running) ~> (poll_pc = "stopped")

\* C16 witness: run_polling ended after stop(), without a fatal error, having
\* submitted updates; both pools were released once
C16_Witness ==
    /\ poll_pc = "stopped"
    /\ fatal = "None"
    /\ ~running
    /\ submitted # <<>>
    /\ pools = [started |-> 1, stopped |-> 1, closed |-> 1]

\* C17: a failed fetch never ends the loop: it leads to the backoff sleep or
\* the circuit-breaker sleep, a sleep leads back to the loop top, and the loop
\* top starts the next fetch unless stop() was called.
C17_FetchFailureKeepsLoop ==
    [][/\ (poll_pc = "fetch" /\ consecutive_failures' = consecutive_failures + 1)
          => poll_pc' \in {"backing_off", "circuit_open"}
       /\ (poll_pc \in {"backing_off", "circuit_open"} /\ poll_pc' # poll_pc)
          => poll_pc' = "loop"
       /\ (poll_pc = "loop" /\ running /\ poll_pc' # poll_pc)
          => poll_pc' = "fetch"]_vars

\* C18: while the bot runs, a run_polling or run_webhook call starts nothing,
\* and the step in which it raises changes no state of the bot: the running
\* flag stays set, the offset, the counters and the program point of the loop
\* in progress are untouched and no pool is stopped or closed.
C18_RejectedWhileRunning ==
    [][/\ (running /\ poll_pc' # poll_pc)
          => poll_pc' \notin {"starting", "webhook_starting"}
       /\ (running /\ rejected' # rejected)
          => /\ rejected' \in {"RuntimeError", "ValueError"}
             /\ UNCHANGED <<running, update_offset, fetch_offset, consecutive_failures,
                            backoff_time, circuit_breaker_threshold, poll_pc, updates,
                            submitted, slept, pools, fatal>>]_vars

\* C18 witness: a call was rejected with "Bot is already running" during a
\* fetch of the running loop, whose pools are started and not released
C18_Witness ==
    /\ rejected = "RuntimeError"
    /\ running
    /\ poll_pc = "fetch"
    /\ pools = [started |-> 1, stopped |-> 0, closed |-> 0]

\* an update of the batch is taken by the for loop: submitted or failed
SubmitStep == poll_pc = "submit" /\ updates # <<>> /\ updates' # updates

\* C28: an exception raised while submitting one update is isolated to that
\* update: whether the submission succeeds or raises, the failure count, the
\* backoff and the sleeps are unchanged, and the loop goes on with the next
\* update of the batch, in batch order.
C28_SubmitFailureIsolated ==
    [][SubmitStep =>
          /\ consecutive_failures' = consecutive_failures
          /\ consecutive_failures = 0
          /\ backoff_time' = backoff_time
          /\ slept' = slept
          /\ fatal' = fatal
          /\ poll_pc' = "submit"
          /\ updates' = Tail(updates)
          /\ submitted' \in {submitted, Append(submitted, Head(updates))}]_vars

\* C28 witness: the submission of the first update of a batch of two raised,
\* the second update was submitted and no failure is counted
C28_Witness ==
    /\ poll_pc = "submit"
    /\ updates = <<>>
    /\ Len(last_batch) = 2
    /\ \A k \in 1..Len(submitted) : submitted[k] # last_batch[1]
    /\ submitted # <<>>
    /\ Last(submitted) = last_batch[2]
    /\ consecutive_failures = 0
    /\ backoff_time = 0

\* C30: at most one polling loop is active on a client at any time, for every
\* interleaving of run_polling() and stop() calls, a stop() followed by a new
\* run_polling() before the previous loop has observed the flag included.
C30_OneLoopActive == ~(poll_pc \in LoopStates /\ second_pc \in {"loop", "fetch"})

\* the part of C30 that holds of the code: without a stop() in between, a
\* run_polling call made while a loop is active is rejected
C30_RejectedWhileFlagSet ==
    [][(running /\ second_pc = "idle" /\ second_pc' # second_pc) => FALSE]_vars

\* C31: at the top of every iteration of the polling loop
\* 0 <= consecutive_failures < circuit_breaker_threshold (the threshold being
\* at least 1), hence every backoff sleep is at most
\* min(backoff_factor * 2^(circuit_breaker_threshold - 1), max_backoff).
C31_FailuresBelowThreshold ==
    /\ poll_pc = "loop" =>
          /\ 0 <= consecutive_failures
          /\ consecutive_failures < circuit_breaker_threshold
    /\ poll_pc = "backing_off" =>
          /\ slept.kind = "backoff"
          /\ slept.time <= Min(BackoffFactor.num * Pow2(circuit_breaker_threshold - 1),
                               Seconds(MaxBackoff))

\* C31 witness: with threshold 5 the loop is at its top after the fourth
\* consecutive failure, which was slept 0.5 * 2^4 = 8 seconds, the bound
C31_Witness ==
    /\ poll_pc = "loop"
    /\ circuit_breaker_threshold = 5
    /\ consecutive_failures = 4
    /\ slept = [kind |-> "backoff", time |-> Seconds(8), failures |-> 4]

\* C37: whenever run_polling or run_webhook has returned or raised after
\* setting the running flag, the flag is cleared, so that a later run_polling
\* or run_webhook call is not rejected with "Bot is already running".
C37_RunningClearedOnReturn == poll_pc \in {"stopped", "webhook_stopped"} => ~running

\* the part of C37 that holds of the code: after run_polling has returned or
\* raised the flag is cleared, and so it is after a run_webhook that ended
\* because stop() cleared it
C37_PollingClearsRunning ==
    /\ poll_pc = "stopped" => ~running
    /\ (poll_pc = "webhook_stopped" /\ fatal = "None") => ~running

\* run_webhook has raised the exception of its startup and the running flag
\* is still set
C37_WebhookLeavesRunning ==
    /\ poll_pc = "webhook_stopped"
    /\ fatal = "StartupError"
    /\ running

\* and the run_polling or run_webhook call that followed was rejected
C37_LaterCallRejected ==
    /\ C37_WebhookLeavesRunning
    /\ rejected = "RuntimeError"

-----------------------------------------------------------------------------
(* Claims about the filters *)

\* what the call of an operand of the evaluated filter ends with
Operand1Result == Call(evaluated.filter.filter1, evaluated.message)
Operand2Result == Call(evaluated.filter.filter2, evaluated.message)

\* C19: the truth value of and(A, B)(m) is that of A(m) and B(m), and the truth
\* value of or(A, B)(m) is that of A(m) or B(m), an operand that fails
\* counting as false.
C19_FilterAlgebra ==
    evaluated.called =>
        /\ evaluated.filter.op = "And"
              => IsTrue(evaluated.result) = (IsTrue(Operand1Result) /\ IsTrue(Operand2Result))
        /\ evaluated.filter.op = "Or"
              => IsTrue(evaluated.result) = (IsTrue(Operand1Result) \/ IsTrue(Operand2Result))

\* the part of C19 that holds of the code: and(A, B) for all operands, and
\* or(A, B) unless the call of A raises
C19_AlgebraUnlessFirstRaises ==
    evaluated.called =>
        /\ evaluated.filter.op = "And"
              => IsTrue(evaluated.result) = (IsTrue(Operand1Result) /\ IsTrue(Operand2Result))
        /\ (evaluated.filter.op = "Or" /\ Operand1Result # Raised)
              => IsTrue(evaluated.result) = (IsTrue(Operand1Result) \/ IsTrue(Operand2Result))

\* the filter is built from the provided leaves only
RECURSIVE Provided(_)
Provided(f) ==
    CASE IsLeaf(f) -> f \in ProvidedLeaves
      [] f.op = "Not" -> Provided(f.filter)
      [] OTHER -> Provided(f.filter1) /\ Provided(f.filter2)

\* what the body of a provided leaf ends with, before its except clause
LeafBody(f, message) ==
    CASE f.op = "Text" -> TextFilterBody(message)
      [] f.op = "Private" -> PrivateFilterBody(message)
      [] f.op = "Custom" -> CustomFilterBody(f.func, message)

\* the filter fails on the message: the body of the leaf raises
Fails(f, message) == IsLeaf(f) /\ LeafBody(f, message) = Raised

\* C20: the call of a filter built from the provided leaves with and, or and
\* not never raises; a leaf whose predicate fails is false, and not(A) is
\* true when A fails.
C20_EvaluationTotal ==
    (evaluated.called /\ Provided(evaluated.filter)) =>
        /\ evaluated.result # Raised
        /\ Fails(evaluated.filter, evaluated.message) => evaluated.result = "False"
        /\ (evaluated.filter.op = "Not"
              /\ Fails(evaluated.filter.filter, evaluated.message))
              => evaluated.result = "True"

\* C20 witness: not(custom(len(m.text) > 1)) was called with a message whose
\* text is None, the predicate raised, and the call ended with True
C20_Witness ==
    /\ evaluated.called
    /\ evaluated.filter = [op |-> "Not", filter |-> [op |-> "Custom", func |-> "len_text"]]
    /\ evaluated.message.text.kind = "None"
    /\ CustomFilterBody("len_text", evaluated.message) = Raised
    /\ evaluated.result = "True"

\* C21: each operand of and(A, B) and or(A, B) is evaluated with its own
\* failure isolation: an operand whose call raises counts as false for that
\* operand only, so or(A, B)(m) is true whenever B(m) is true, also when the
\* call of A raises, and and(A, B)(m) is false when an operand raises.
C21_OperandIsolation ==
    evaluated.called =>
        /\ (evaluated.filter.op = "Or" /\ IsTrue(Operand2Result))
              => IsTrue(evaluated.result)
        /\ (evaluated.filter.op = "Or" /\ IsTrue(Operand1Result))
              => IsTrue(evaluated.result)
        /\ (evaluated.filter.op = "And" /\ Raised \in {Operand1Result, Operand2Result})
              => ~IsTrue(evaluated.result)

-----------------------------------------------------------------------------
(* Claims about the RateLimiter *)

\* the requests of the key passed to next_handler() in the window of per
\* seconds that ends at time t
PassedInWindow(key, t) ==
    {i \in 1..Len(requests) :
        /\ requests[i].key = key
        /\ requests[i].pc = "next_handler"
        /\ requests[i].passed > t - limiter.per
        /\ requests[i].passed <= t}

\* the requests of the key that are recorded: the times kept in the memory
\* store, or the counter of the storage
Recorded(key) ==
    IF limiter.storage THEN storage[key].count ELSE Len(memory_store[key])

\* at most rate requests per key are passed on within any window of per seconds
AtMostRatePerWindow ==
    \A key \in Keys, t \in 0..MaxTime : Cardinality(PassedInWindow(key, t)) <= limiter.rate

\* a rejected request is not recorded: the recorded requests of a key are
\* requests that went on to next_handler()
RejectedNotRecorded ==
    \A key \in Keys :
        Recorded(key) <= Cardinality({i \in 1..Len(requests) :
                                        /\ requests[i].key = key
                                        /\ requests[i].pc \in {"expire", "next_handler"}})

\* C27: the RateLimiter passes at most rate updates per key to the next
\* handler within any window of per seconds, also when updates of one key are
\* processed concurrently, and a rejected update is not recorded as a request.
C27_RateLimit == AtMostRatePerWindow /\ RejectedNotRecorded

\* the part of C27 that holds of the code: a RateLimiter without a storage
C27_MemoryRateLimit == ~limiter.storage => C27_RateLimit

-----------------------------------------------------------------------------
(* Claims about the AnalyticsCollector *)

\* C38: for every command, after any sequence of successful and failing
\* updates, error_count <= total_uses (one handler failure adds exactly one to
\* the command's error_count), so that success_rate is within 0..100.
C38_ErrorsWithinUses ==
    \A command \in DOMAIN command_stats :
        /\ command_stats[command].error_count <= command_stats[command].total_uses
        /\ 0 <= command_stats[command].success_rate.num
        /\ command_stats[command].success_rate.num
              <= 100 * command_stats[command].success_rate.den

\* what holds of the code instead: a failure is counted at most twice, and the
\* success rate is at most 100
C38_ErrorsWithinTwiceUses ==
    \A command \in DOMAIN command_stats :
        /\ command_stats[command].error_count <= 2 * command_stats[command].total_uses
        /\ command_stats[command].success_rate.num
              <= 100 * command_stats[command].success_rate.den

\* the command /a was used once, its handler failed, and its error_count is 2
C38_OneFailureCountedTwice ==
    /\ analytics_pc = "idle"
    /\ message_counter = 1
    /\ <<"/", "a">> \in DOMAIN command_stats
    /\ command_stats[<<"/", "a">>].total_uses = 1
    /\ command_stats[<<"/", "a">>].error_count = 2

\* after two failures and a success of /a its success rate is (3 - 4) / 3 * 100
C38_NegativeSuccessRate ==
    /\ <<"/", "a">> \in DOMAIN command_stats
    /\ command_stats[<<"/", "a">>].success_rate = Percent(-100, 3)

\* C39: after every _track_user_session call the number of tracked user
\* sessions is at most max_sessions, for updates of any number of distinct users.
C39_SessionsWithinCapacity == Cardinality(DOMAIN user_sessions) <= max_sessions

\* what holds of the code instead: after a _track_user_session call that left
\* more than max_sessions sessions, none of them had expired at the call
C39_OnlyLiveSessionsAboveCapacity ==
    (/\ analytics_pc = "handler"
     /\ analytics_ctx.user # None
     /\ Cardinality(DOMAIN user_sessions) > max_sessions) =>
        \A user \in DOMAIN user_sessions :
            user_sessions[analytics_ctx.user].last_activity
                - user_sessions[user].last_activity <= session_timeout

\* with max_sessions = 1, the sessions of two users are tracked after the
\* _track_user_session call of the second
C39_TwoSessionsOfOne ==
    /\ max_sessions = 1
    /\ analytics_pc = "handler"
    /\ analytics_ctx.user = 2
    /\ DOMAIN user_sessions = {1, 2}

====
